---- MODULE Spec2Model ----
(***************************************************************************)
(* Model of the two-player lawn-defence server (src/index.js, lines 1-410, *)
(* the variant with the Game class, the wave system and the ambulances).   *)
(*                                                                         *)
(* Every socket handler and every interval callback runs to completion on  *)
(* the single JavaScript thread, so each is one atomic action.             *)
(*                                                                         *)
(* Numbers.  Times are milliseconds (Date.now()).  Positions are kept in   *)
(* fixed point: one grid cell is CELL = 100000 units, so that              *)
(*     x -= speed * deltaTime,   deltaTime = (now - lastUpdate) / 1000     *)
(* is exact on integers when speed is written in hundredths of a cell per  *)
(* second (0.5 -> 50, 0.45 -> 45, 2 -> 200): the product of hundredths     *)
(* and milliseconds is a number of 1/100000 cells.                         *)
(***************************************************************************)
EXTENDS Integers, Sequences, FiniteSets, TLC

VARIABLES
    games,     \* the registry: a function from the ids in use to Game objects
    loops,     \* for each id, the number of live setInterval handles bound to it
    now,       \* Date.now()
    nextUid,   \* identity of the next Game object that `new Game()` allocates
    out        \* the handler that ran last and the events it emitted

vars == <<games, loops, now, nextUid, out>>

(***************************************************************************)
(* Bounds of the exploration.                                              *)
(***************************************************************************)
MaxPlants  == 2        \* placePlant is explored while fewer plants exist
MaxZombies == 2        \* placeZombie is explored while fewer zombies exist
MaxGames   == 1        \* number of Game objects ever constructed
Horizon    == 100000   \* the clock is advanced at most this far past StartTime

(***************************************************************************)
(* Program constants.                                                      *)
(***************************************************************************)
CELL == 100 * 1000

WAVE_SYSTEM ==
    [ POINTS_PER_WAVE  |-> 100,
      POINTS_INCREMENT |-> 50,
      WAVE_DURATION    |-> 60000,
      BREAK_DURATION   |-> 20000,
      TOTAL_WAVES      |-> 5 ]

PLANT_TYPES ==
    [ SUNFLOWER  |-> [ cost |-> 50,  health |-> 100, damage |-> 0,
                       sunGenerationInterval |-> 20000, sunAmount |-> 25,
                       shootInterval |-> 0 ],
      PEASHOOTER |-> [ cost |-> 100, health |-> 100, damage |-> 20,
                       sunGenerationInterval |-> 0, sunAmount |-> 0,
                       shootInterval |-> 2000 ] ]

ZOMBIE_TYPES ==
    [ BASIC    |-> [ cost |-> 25,  health |-> 100, damage |-> 10, speed |-> 50,
                     attackInterval |-> 1000 ],
      CONE     |-> [ cost |-> 50,  health |-> 200, damage |-> 10, speed |-> 45,
                     attackInterval |-> 1000 ],
      BUCKET   |-> [ cost |-> 75,  health |-> 300, damage |-> 10, speed |-> 40,
                     attackInterval |-> 1000 ],
      DOOR     |-> [ cost |-> 100, health |-> 400, damage |-> 10, speed |-> 35,
                     attackInterval |-> 1200 ],
      FOOTBALL |-> [ cost |-> 175, health |-> 200, damage |-> 15, speed |-> 80,
                     attackInterval |-> 800 ] ]

AMBULANCE == [ speed |-> 200, damage |-> 1000 ]

\* Date.now() when the server starts: any value larger than every duration
\* of the program behaves like the real epoch time (waveStartTime is 0 in a
\* fresh Game, and now - 0 exceeds BREAK_DURATION from the first tick on).
StartTime == 10 * 100000

(***************************************************************************)
(* Inputs of the commands.                                                 *)
(***************************************************************************)
Ids     == {"g1"}
Sockets == {"s1", "s2"}

\* the messages of placePlant, { type, x, y }: the two kinds on the cell
\* (8, 0), at x = 8 and at x = 8.5 (y = 0.5), a key PLANT_TYPES does not
\* have, and a position past the right edge of the lawn (x = 9)
Plant(type, x, y) == [ type |-> type, x |-> x, y |-> y ]

PlantInputs ==
    { Plant("SUNFLOWER", 800000, 50000), Plant("PEASHOOTER", 850000, 50000),
      Plant("WALLNUT", 800000, 50000),   Plant("SUNFLOWER", 900000, 50000) }

\* the messages of placeZombie, { type, y }: "" is an absent type
\* (data.type || 'BASIC'); two kinds in row 0 and one row past the lawn
Zombie(type, y) == [ type |-> type, y |-> y ]

ZombieInputs ==
    { Zombie("", 50000), Zombie("DOOR", 50000), Zombie("", 500000) }

\* milliseconds that pass between two events
Deltas == {20000}

(***************************************************************************)
(* Helpers.                                                                *)
(***************************************************************************)
Floor(x) == x \div CELL

Abs(x) == IF x < 0 THEN -x ELSE x

\* Array.prototype.find over the indexes that pass its test: the least one,
\* 0 when there is none
FindFirst(found) ==
    IF found = {} THEN 0
    ELSE CHOOSE i \in found : \A j \in found : i <= j

Ev(to, name, info) == [to |-> to, name |-> name, info |-> info]

Has(g) == g \in DOMAIN games

(***************************************************************************)
(* class Game and getGameState.                                            *)
(***************************************************************************)
initAmbulances ==
    [ i \in 1..5 |->
        [ row |-> i - 1, x |-> -(CELL \div 2), active |-> FALSE, used |-> FALSE,
          state |-> "idle" ] ]

\* new Game(): uid is the identity of the object (two objects with equal
\* fields are still two objects); t is Date.now()
Game(uid, t) ==
    [ uid           |-> uid,
      plants        |-> <<>>,
      zombies       |-> <<>>,
      sun           |-> 50,
      players       |-> <<>>,
      status        |-> "waiting",
      currentWave   |-> 0,
      wavePoints    |-> WAVE_SYSTEM.POINTS_PER_WAVE,
      waveStartTime |-> 0,
      waveStatus    |-> "break",
      lastUpdate    |-> t,
      ambulances    |-> initAmbulances,
      score         |-> [ plants |-> 0, zombies |-> 0 ] ]

\* what a handler leaves in `out`: its name, the id it was about and the
\* events it emitted, when the events are recorded (out.on); otherwise out
\* never changes
Out(op, g, ev) == [ on |-> TRUE, op |-> op, g |-> g, ev |-> ev ]

Unrecorded == [ on |-> FALSE, op |-> "", g |-> "", ev |-> << >> ]

Emit(op, g, ev) == IF out.on THEN Out(op, g, ev) ELSE out

(***************************************************************************)
(* The state of one run of the interval callback: the game, the events     *)
(* emitted so far, and whether updateGameState has returned early.         *)
(***************************************************************************)
Running(game) == [ game |-> game, ev |-> <<>>, done |-> FALSE ]

\* endGame(game, winner, gameId)
endGame(st, winner) ==
    [ st EXCEPT !.game.status = "ended",
                !.game.score[winner] = @ + 1,
                !.ev = Append(@, Ev("room", "gameEnded", winner)) ]

(***************************************************************************)
(* updateGameState, step 1: the wave director.  `done` is the early return *)
(* of the plant victory.                                                   *)
(***************************************************************************)
\* waveElapsed for a phase that never ends
neverElapsed(game, t, duration) == FALSE

waveElapsed(game, t, duration) == t - game.waveStartTime >= duration

\* allWavesCompleted with > in place of >=
moreThanAllWaves(game) ==
    /\ game.currentWave > WAVE_SYSTEM.TOTAL_WAVES
    /\ Len(game.zombies) = 0

\* allWavesCompleted without the look at the zombies
lastWaveReached(game) == game.currentWave >= WAVE_SYSTEM.TOTAL_WAVES

allWavesCompleted(game) ==
    /\ game.currentWave >= WAVE_SYSTEM.TOTAL_WAVES
    /\ Len(game.zombies) = 0

\* wavePointsFor without the increment of the wave
basePoints(wave) == WAVE_SYSTEM.POINTS_PER_WAVE

wavePointsFor(wave) ==
    WAVE_SYSTEM.POINTS_PER_WAVE + (wave * WAVE_SYSTEM.POINTS_INCREMENT)

updateWaveStatus(st, t) ==
    LET game == st.game IN
    IF game.waveStatus = "active"
    THEN IF waveElapsed(game, t, WAVE_SYSTEM.WAVE_DURATION)
         THEN [ st EXCEPT !.game.waveStatus = "break",
                          !.game.waveStartTime = t ]
         ELSE st
    ELSE IF game.waveStatus = "break"
              /\ waveElapsed(game, t, WAVE_SYSTEM.BREAK_DURATION)
         THEN LET next == [ st EXCEPT !.game.currentWave = @ + 1 ] IN
              IF allWavesCompleted(next.game)
              THEN [ endGame(next, "plants") EXCEPT !.done = TRUE ]
              ELSE [ next EXCEPT
                       !.game.wavePoints = wavePointsFor(next.game.currentWave),
                       !.game.waveStatus = "active",
                       !.game.waveStartTime = t ]
         ELSE st

(***************************************************************************)
(* updateGameState, step 2: the ambulances (dt in milliseconds).           *)
(***************************************************************************)
ambulanceHits(zombie, ambulance) ==
    /\ Floor(zombie.y) = ambulance.row
    /\ Abs(zombie.x - ambulance.x) < CELL

\* ambulanceAtEnd for an ambulance that drives on for ever
neverAtEnd(ambulance) == FALSE

ambulanceAtEnd(ambulance) == ambulance.x > 9 * CELL

\* the test of the ambulance loop without the used flag
isActive(ambulance) == ambulance.active

\* ambulance.active && !ambulance.used
isDriving(ambulance) == ambulance.active /\ ~ambulance.used

updateAmbulance(game, i, dt) ==
    LET a == game.ambulances[i] IN
    IF isDriving(a)
    THEN LET moved == [ a EXCEPT !.x = @ + AMBULANCE.speed * dt ]
             zs == [ j \in 1..Len(game.zombies) |->
                       IF ambulanceHits(game.zombies[j], moved)
                       THEN [ game.zombies[j] EXCEPT !.health = 0 ]
                       ELSE game.zombies[j] ]
             a2 == IF ambulanceAtEnd(moved)
                   THEN [ moved EXCEPT !.used = TRUE, !.state = "used" ]
                   ELSE moved
         IN [ game EXCEPT !.zombies = zs, !.ambulances[i] = a2 ]
    ELSE game

RECURSIVE updateAmbulances(_, _, _)
updateAmbulances(game, i, dt) ==
    IF i > Len(game.ambulances) THEN game
    ELSE updateAmbulances(updateAmbulance(game, i, dt), i + 1, dt)

(***************************************************************************)
(* updateGameState, step 3: the zombies, in list order.                    *)
(***************************************************************************)
\* collides without the distance: any plant of the row stops the zombie
sharesRow(zombie, plant) == Floor(plant.y) = Floor(zombie.y)

collides(zombie, plant) ==
    /\ Abs(zombie.x - plant.x) < CELL \div 2
    /\ Floor(plant.y) = Floor(zombie.y)

\* game.plants.find(...): index of the colliding plant, 0 when there is none
collidingPlant(game, zombie) ==
    FindFirst({ k \in 1..Len(game.plants) : collides(zombie, game.plants[k]) })

\* canAttack without the interval
attacksAtOnce(zombie, t) == t - zombie.lastAttack >= 0

canAttack(zombie, t) ==
    t - zombie.lastAttack >= ZOMBIE_TYPES[zombie.type].attackInterval

reachedHouse(zombie) == zombie.x <= 0

\* rowAmbulance without the used flag
ambulanceOfRow(game, zombie) ==
    FindFirst({ i \in 1..Len(game.ambulances) :
                  game.ambulances[i].row = Floor(zombie.y) })

\* game.ambulances.find(...): index of the unused ambulance of the row, or 0
rowAmbulance(game, zombie) ==
    FindFirst({ i \in 1..Len(game.ambulances) :
                  /\ game.ambulances[i].row = Floor(zombie.y)
                  /\ ~game.ambulances[i].used })

\* the return after endGame leaves the forEach callback only: the loop goes
\* on with the next zombie
updateZombie(st, i, t, dt) ==
    LET zombie == st.game.zombies[i]
        k == collidingPlant(st.game, zombie)
    IN
    IF k # 0
    THEN IF canAttack(zombie, t)
         THEN [ st EXCEPT
                  !.game.plants[k].health = @ - ZOMBIE_TYPES[zombie.type].damage,
                  !.game.zombies[i].lastAttack = t ]
         ELSE st
    ELSE LET moved == [ st EXCEPT !.game.zombies[i].x = @ - zombie.speed * dt ]
             a == rowAmbulance(moved.game, moved.game.zombies[i])
         IN
         IF reachedHouse(moved.game.zombies[i])
         THEN IF a # 0
              THEN [ moved EXCEPT !.game.ambulances[a].active = TRUE ]
              ELSE endGame(moved, "zombies")
         ELSE moved

RECURSIVE updateZombies(_, _, _, _)
updateZombies(st, i, t, dt) ==
    IF i > Len(st.game.zombies) THEN st
    ELSE updateZombies(updateZombie(st, i, t, dt), i + 1, t, dt)

(***************************************************************************)
(* updateGameState, step 4: the plants, in list order.                     *)
(***************************************************************************)
\* canGenerateSun measured from lastShot, which a sunflower never resets
dueSincePlaced(plant, t) ==
    t - plant.lastShot >= PLANT_TYPES.SUNFLOWER.sunGenerationInterval

canGenerateSun(plant, t) ==
    t - plant.lastSunGeneration >= PLANT_TYPES.SUNFLOWER.sunGenerationInterval

\* canShoot after half the interval
canShootEarly(plant, t) ==
    t - plant.lastShot >= PLANT_TYPES.PEASHOOTER.shootInterval \div 2

canShoot(plant, t) ==
    t - plant.lastShot >= PLANT_TYPES.PEASHOOTER.shootInterval

inRange(plant, z) ==
    /\ Floor(z.y) = Floor(plant.y)
    /\ z.x > plant.x

\* closestZombie with the latest zombie on equal x
closestZombieLast(game, plant) ==
    LET n == Len(game.zombies)
        Eligible == { j \in 1..n : inRange(plant, game.zombies[j]) }
    IN
    IF Eligible = {} THEN 0
    ELSE CHOOSE j \in Eligible :
            \A m \in Eligible :
                \/ game.zombies[j].x < game.zombies[m].x
                \/ game.zombies[j].x = game.zombies[m].x /\ j >= m

\* zombiesInRow.reduce(...): index in game.zombies of the closest zombie in
\* range, the earliest one on equal x; 0 when zombiesInRow is empty
closestZombie(game, plant) ==
    LET n == Len(game.zombies)
        Eligible == { j \in 1..n : inRange(plant, game.zombies[j]) }
    IN
    IF Eligible = {} THEN 0
    ELSE CHOOSE j \in Eligible :
            \A m \in Eligible :
                \/ game.zombies[j].x < game.zombies[m].x
                \/ game.zombies[j].x = game.zombies[m].x /\ j <= m

updatePlant(game, i, t) ==
    LET plant == game.plants[i] IN
    IF plant.type = "SUNFLOWER"
    THEN IF canGenerateSun(plant, t)
         THEN [ game EXCEPT !.sun = @ + PLANT_TYPES.SUNFLOWER.sunAmount,
                            !.plants[i].lastSunGeneration = t ]
         ELSE game
    ELSE IF plant.type = "PEASHOOTER" /\ canShoot(plant, t)
         THEN LET j == closestZombie(game, plant) IN
              IF j # 0
              THEN [ game EXCEPT
                       !.zombies[j].health = @ - PLANT_TYPES.PEASHOOTER.damage,
                       !.plants[i].lastShot = t ]
              ELSE game
         ELSE game

RECURSIVE updatePlants(_, _, _)
updatePlants(game, i, t) ==
    IF i > Len(game.plants) THEN game
    ELSE updatePlants(updatePlant(game, i, t), i + 1, t)

(***************************************************************************)
(* updateGameState, step 5: remove dead units.                             *)
(***************************************************************************)
\* alive with >= in place of >
notBelowZero(unit) == unit.health >= 0

alive(unit) == unit.health > 0

removeDead(game) ==
    [ game EXCEPT !.zombies = SelectSeq(@, alive),
                  !.plants  = SelectSeq(@, alive) ]

(***************************************************************************)
(* updateGameState(game, gameId) at time t.                                *)
(***************************************************************************)
deltaMs(game, t) == t - game.lastUpdate

\* updateGameState with the dead removed before the plants act as well
removalBeforePlants(game, t) ==
    LET dt == deltaMs(game, t)
        s0 == Running([ game EXCEPT !.lastUpdate = t ])
        s1 == updateWaveStatus(s0, t)
        s2 == [ s1 EXCEPT !.game = updateAmbulances(@, 1, dt) ]
        s3 == updateZombies(s2, 1, t, dt)
        s4 == [ s3 EXCEPT !.game = removeDead(updatePlants(removeDead(@), 1, t)) ]
    IN IF s1.done THEN s1 ELSE s4

updateGameState(game, t) ==
    LET dt == deltaMs(game, t)
        s0 == Running([ game EXCEPT !.lastUpdate = t ])
        s1 == updateWaveStatus(s0, t)
        s2 == [ s1 EXCEPT !.game = updateAmbulances(@, 1, dt) ]
        s3 == updateZombies(s2, 1, t, dt)
        s4 == [ s3 EXCEPT !.game = removeDead(updatePlants(@, 1, t)) ]
    IN IF s1.done THEN s1 ELSE s4

(***************************************************************************)
(* The socket handlers.  s is the socket, g the game id of the message.    *)
(* placePlant and placeZombie never read socket.id: any connected socket   *)
(* may send them, and their only use of the socket is the error reply.     *)
(***************************************************************************)
Range(seq) == { seq[i] : i \in 1..Len(seq) }

\* socket.emit('error', { message }) and return: nothing else happens
Reject(op, g, message) ==
    /\ out' = Emit(op, g, << Ev("socket", "error", message) >>)
    /\ UNCHANGED <<games, loops>>

\* a bare return
Ignore(op, g) ==
    /\ out' = Emit(op, g, << >>)
    /\ UNCHANGED <<games, loops>>

\* Math.random().toString(36).substring(7) is any id, used or not
createGame(s, g) ==
    /\ games' = (g :> [ Game(nextUid, now) EXCEPT !.players = << s >> ]) @@ games
    /\ nextUid' = nextUid + 1
    /\ out' = Emit("createGame", g, << Ev("socket", "gameCreated", g) >>)
    /\ UNCHANGED <<loops, now>>

gameIsFull(game) == Len(game.players) >= 2

\* startGameLoop starting an interval under every id
startEveryLoop(g) == loops' = [ h \in DOMAIN loops |-> loops[h] + 1 ]

startGameLoop(g) == loops' = [ loops EXCEPT ![g] = @ + 1 ]

joined(game, s, t) ==
    [ game EXCEPT !.players = Append(@, s),
                  !.status = "playing",
                  !.waveStartTime = t,
                  !.waveStatus = "active" ]

joinGame(s, g) ==
    /\ UNCHANGED <<now, nextUid>>
    /\ IF ~Has(g) THEN Reject("joinGame", g, "Game not found!")
       ELSE IF gameIsFull(games[g]) THEN Reject("joinGame", g, "Game is full!")
       ELSE /\ games' = [ games EXCEPT ![g] = joined(@, s, now) ]
            /\ out' = Emit("joinGame", g, << Ev("socket", "gameJoined", g),
                                            Ev("room", "gameStart", g) >>)
            /\ startGameLoop(g)

\* invalidPlantPosition with the right and bottom edges on the lawn
beyondTheEdges(x, y) == x < 0 \/ x > 9 * CELL \/ y < 0 \/ y > 5 * CELL

invalidPlantPosition(x, y) == x < 0 \/ x >= 9 * CELL \/ y < 0 \/ y >= 5 * CELL

\* isSpotTaken without Math.floor
isSamePosition(game, x, y) ==
    \E i \in 1..Len(game.plants) :
        /\ game.plants[i].x = x
        /\ game.plants[i].y = y

isSpotTaken(game, x, y) ==
    \E i \in 1..Len(game.plants) :
        /\ Floor(game.plants[i].x) = Floor(x)
        /\ Floor(game.plants[i].y) = Floor(y)

\* notEnoughSun with the comparison against zero instead of the cost
sunIsNegative(game, plantType) == game.sun < 0

notEnoughSun(game, plantType) == game.sun < plantType.cost

newPlant(type, x, y, t) ==
    [ type |-> type, x |-> x, y |-> y, health |-> PLANT_TYPES[type].health,
      lastShot |-> t, lastSunGeneration |-> t ]

\* game.sun -= plantType.cost; game.plants.push({...})
plantPlaced(game, type, x, y, t) ==
    [ game EXCEPT !.sun = @ - PLANT_TYPES[type].cost,
                  !.plants = Append(@, newPlant(type, x, y, t)) ]

placePlant(g, type, x, y) ==
    /\ UNCHANGED <<now, nextUid>>
    /\ IF ~Has(g) THEN Ignore("placePlant", g)
       ELSE IF games[g].status # "playing" THEN Ignore("placePlant", g)
       ELSE IF type \notin DOMAIN PLANT_TYPES THEN Ignore("placePlant", g)
       ELSE IF invalidPlantPosition(x, y)
            THEN Reject("placePlant", g, "Invalid position!")
       ELSE IF isSpotTaken(games[g], x, y)
            THEN Reject("placePlant", g, "Spot is already taken!")
       ELSE IF notEnoughSun(games[g], PLANT_TYPES[type])
            THEN Reject("placePlant", g, "Not enough sun!")
       ELSE /\ Len(games[g].plants) < MaxPlants
            /\ games' = [ games EXCEPT ![g] = plantPlaced(@, type, x, y, now) ]
            /\ out' = Emit("placePlant", g, << Ev("room", "gameUpdate", g) >>)
            /\ UNCHANGED loops

\* data.type || 'BASIC'
zombieKind(type) == IF type = "" THEN "BASIC" ELSE type

invalidZombiePosition(y) == y < 0 \/ y >= 5 * CELL

\* notEnoughPoints with the budget of the first wave instead of what is left
aboveBaseBudget(game, zombieType) ==
    zombieType.cost > WAVE_SYSTEM.POINTS_PER_WAVE

notEnoughPoints(game, zombieType) == zombieType.cost > game.wavePoints

\* newZombie entering at the edge of the lawn, x = 9
newZombieAtEdge(type, y, t) ==
    [ type |-> type, x |-> 9 * CELL, y |-> y,
      health |-> ZOMBIE_TYPES[type].health,
      speed |-> ZOMBIE_TYPES[type].speed, lastAttack |-> t ]

newZombie(type, y, t) ==
    [ type |-> type, x |-> 8 * CELL, y |-> y,
      health |-> ZOMBIE_TYPES[type].health,
      speed |-> ZOMBIE_TYPES[type].speed, lastAttack |-> t ]

\* game.wavePoints -= zombieType.cost; game.zombies.push({...})
zombiePlaced(game, type, y, t) ==
    [ game EXCEPT !.wavePoints = @ - ZOMBIE_TYPES[type].cost,
                  !.zombies = Append(@, newZombie(type, y, t)) ]

\* the status test of placeZombie without the test of the phase
notPlaying(game) == game.status # "playing"

\* game.status !== 'playing' || game.waveStatus !== 'active'
notInActiveWave(game) == game.status # "playing" \/ game.waveStatus # "active"

placeZombie(g, type, y) ==
    /\ UNCHANGED <<now, nextUid>>
    /\ IF ~Has(g) THEN Ignore("placeZombie", g)
       ELSE IF notInActiveWave(games[g])
            THEN Ignore("placeZombie", g)
       ELSE IF zombieKind(type) \notin DOMAIN ZOMBIE_TYPES
            THEN Ignore("placeZombie", g)
       ELSE IF invalidZombiePosition(y)
            THEN Reject("placeZombie", g, "Invalid position!")
       ELSE IF notEnoughPoints(games[g], ZOMBIE_TYPES[zombieKind(type)])
            THEN Reject("placeZombie", g, "Not enough points!")
       ELSE /\ Len(games[g].zombies) < MaxZombies
            /\ games' = [ games EXCEPT ![g] = zombiePlaced(@, zombieKind(type), y, now) ]
            /\ out' = Emit("placeZombie", g, << Ev("room", "gameUpdate", g) >>)
            /\ UNCHANGED loops

\* disconnectWinner that never looks at who leaves
plantsAlways(game, s) == "plants"

\* the gameEnded events of a disconnect, one per game the socket is in
disconnectWinner(game, s) == IF game.players[1] = s THEN "zombies" ELSE "plants"

RECURSIVE disconnectEvents(_, _)
disconnectEvents(ids, s) ==
    IF ids = {} THEN << >>
    ELSE LET g == CHOOSE h \in ids : TRUE IN
         << Ev("room", "gameEnded", disconnectWinner(games[g], s)) >>
             \o disconnectEvents(ids \ {g}, s)

disconnect(s) ==
    LET mine == { g \in DOMAIN games : s \in Range(games[g].players) } IN
    /\ games' = [ g \in DOMAIN games \ mine |-> games[g] ]
    /\ out' = Emit("disconnect", "", disconnectEvents(mine, s))
    /\ UNCHANGED <<loops, now, nextUid>>

(***************************************************************************)
(* One firing of the setInterval callback of startGameLoop(g).             *)
(***************************************************************************)
loopMustStop(g) == ~Has(g) \/ games[g].status = "ended"

gameLoop(g) ==
    /\ loops[g] > 0
    /\ UNCHANGED <<now, nextUid>>
    /\ IF loopMustStop(g)
       THEN /\ loops' = [ loops EXCEPT ![g] = @ - 1 ]      \* clearInterval
            /\ out' = Emit("clearInterval", g, << >>)
            /\ UNCHANGED games
       ELSE LET st == updateGameState(games[g], now) IN
            /\ games' = [ games EXCEPT ![g] = st.game ]
            /\ out' = Emit("tick", g, Append(st.ev, Ev("room", "gameUpdate", g)))
            /\ UNCHANGED loops

(***************************************************************************)
(* Time passes between two events.                                         *)
(***************************************************************************)
timePasses(d, horizon) ==
    /\ now + d <= StartTime + horizon
    /\ now' = now + d
    /\ out' = Emit("timePasses", "", << >>)
    /\ UNCHANGED <<games, loops, nextUid>>

(***************************************************************************)
(* The server after start-up: no game, no interval.                        *)
(***************************************************************************)
Started ==
    /\ games = << >>
    /\ loops = [ g \in Ids |-> 0 ]
    /\ now = StartTime
    /\ nextUid = 1

Init == Started /\ out = Unrecorded

InitEvents == Started /\ out = Out("listen", "", << >>)

(***************************************************************************)
(* The next-state relation over given sets of inputs: the sockets, the     *)
(* fields of the messages, the milliseconds between events, and how far    *)
(* the clock and the allocation of Game objects are explored.              *)
(***************************************************************************)
Handlers(in) ==
    \/ \E s \in in.creators, g \in Ids : nextUid <= in.games /\ createGame(s, g)
    \/ \E s \in in.joiners, g \in Ids : joinGame(s, g)
    \/ \E g \in Ids, m \in in.plants : placePlant(g, m.type, m.x, m.y)
    \/ \E g \in Ids, m \in in.zombies : placeZombie(g, m.type, m.y)
    \/ \E s \in in.sockets : disconnect(s)
    \/ \E g \in Ids : gameLoop(g)

NextOver(in) ==
    \/ Handlers(in)
    \/ \E d \in in.deltas : timePasses(d, in.horizon)

\* a match in one cell of the lawn, through the first wave
Inputs ==
    [ creators |-> { "s1" },
      joiners  |-> { "s2" },
      sockets  |-> Sockets,
      plants   |-> PlantInputs,
      zombies  |-> ZombieInputs,
      deltas   |-> Deltas,
      horizon  |-> Horizon,
      games    |-> MaxGames ]

Next == NextOver(Inputs)

Spec == Init /\ [][Next]_vars

(***************************************************************************)
(* Five waves: one kind of zombie, a plant message off the lawn, and a      *)
(* clock in steps of a break and of a wave.                                *)
(***************************************************************************)
WaveHorizon == 400000
WaveGames   == 1

WaveInputs ==
    [ creators |-> { "s1" },
      joiners  |-> Sockets,
      sockets  |-> Sockets,
      plants   |-> { Plant("SUNFLOWER", 900000, 50000) },
      zombies  |-> { Zombie("FOOTBALL", 50000) },
      deltas   |-> { WAVE_SYSTEM.BREAK_DURATION, WAVE_SYSTEM.WAVE_DURATION },
      horizon  |-> WaveHorizon,
      games    |-> WaveGames ]

NextWaves == NextOver(WaveInputs)

SpecWaves == Init /\ [][NextWaves]_vars

(* The events of the handlers: the same server with the emitted events     *)
(* recorded, one step of the clock that ends the first wave, and one        *)
(* message for every check of the two placement handlers: a key the        *)
(* catalogue does not have (WALLNUT, GARGANTUAR) and a position beyond     *)
(* each edge of the lawn (x = -0.5, x = 9, y = -1, y = 5).                 *)
(***************************************************************************)
EventHorizon == 60000
EventGames   == 1

EventInputs ==
    [ creators |-> { "s1" },
      joiners  |-> { "s2" },
      sockets  |-> Sockets,
      plants   |-> { Plant("SUNFLOWER", 800000, 50000),
                     Plant("PEASHOOTER", 850000, 50000),
                     Plant("WALLNUT", 800000, 50000),
                     Plant("SUNFLOWER", -50000, 50000),
                     Plant("SUNFLOWER", 900000, 50000),
                     Plant("SUNFLOWER", 800000, -100000),
                     Plant("SUNFLOWER", 800000, 500000) },
      zombies  |-> { Zombie("", 50000), Zombie("DOOR", 50000),
                     Zombie("GARGANTUAR", 50000),
                     Zombie("", -100000), Zombie("", 500000) },
      deltas   |-> { WAVE_SYSTEM.WAVE_DURATION },
      horizon  |-> EventHorizon,
      games    |-> EventGames ]

NextEvents == NextOver(EventInputs)

SpecEvents == InitEvents /\ [][NextEvents]_vars

(***************************************************************************)
(* Two createGame that may draw the same id, with no unit on the lawn: a   *)
(* clock in steps of a break and of a wave, through five waves.            *)
(***************************************************************************)
CollideHorizon == 320000
CollideGames   == 2

CollideInputs ==
    [ creators |-> { "s1" },
      joiners  |-> { "s2" },
      sockets  |-> Sockets,
      plants   |-> { Plant("SUNFLOWER", 900000, 50000) },
      zombies  |-> { Zombie("", 500000) },
      deltas   |-> { WAVE_SYSTEM.BREAK_DURATION, WAVE_SYSTEM.WAVE_DURATION },
      horizon  |-> CollideHorizon,
      games    |-> CollideGames ]

NextCollide == NextOver(CollideInputs)

SpecCollide == Init /\ [][NextCollide]_vars

(* The ambulances: basic zombies in row 0 with no plant in their way.  The  *)
(* clock alternates the 16 s a basic zombie walks from x = 8 to the house  *)
(* with the half second in which an ambulance drives one cell; the         *)
(* interval may fire or not at each of these instants.                     *)
(***************************************************************************)
RescueHorizon == 49000
RescueGames   == 1

RescueInputs ==
    [ creators |-> { "s1" },
      joiners  |-> { "s2" },
      sockets  |-> { "s2" },
      plants   |-> { Plant("SUNFLOWER", 900000, 50000) },
      zombies  |-> { Zombie("", 50000) },
      deltas   |-> { 500, 16000 },
      horizon  |-> RescueHorizon,
      games    |-> RescueGames ]

\* the instants of the clock, in milliseconds after StartTime
RescueClock == { 16000, 16500, 32500, 33000, 49000 }

NextRescue ==
    \/ Handlers(RescueInputs)
    \/ \E d \in RescueInputs.deltas :
          /\ timePasses(d, RescueInputs.horizon)
          /\ now' - StartTime \in RescueClock

SpecRescue == Init /\ [][NextRescue]_vars

(* The garden: a sunflower in row 1 earns the sun for a peashooter in row 0 *)
(* (x = 2.5), which shoots at basic zombies of its row.  The clock goes in *)
(* steps of the 20 s of the sunflower until the second wave begins, then   *)
(* in steps of one second, half the interval of the peashooter.            *)
(***************************************************************************)
GardenHorizon == 84000
GardenGames   == 1

GardenInputs ==
    [ creators |-> { "s1" },
      joiners  |-> { "s2" },
      sockets  |-> { "s2" },
      plants   |-> { Plant("SUNFLOWER", 800000, 150000),
                     Plant("PEASHOOTER", 250000, 50000) },
      zombies  |-> { Zombie("", 50000) },
      deltas   |-> { 1000, 20000 },
      horizon  |-> GardenHorizon,
      games    |-> GardenGames ]

\* the instants of the clock, in milliseconds after StartTime
GardenClock == { 20000, 40000, 60000, 80000, 81000, 82000, 83000, 84000 }

\* the interval of g has nothing left to do at this instant: with a period
\* of GAME_UPDATE_INTERVAL = 50 ms it fires many times in every step of the
\* clock, so the clock moves on only after the tick of the instant
punctual(g) ==
    ( loops[g] > 0 /\ ~loopMustStop(g) ) => games[g].lastUpdate = now

NextGarden ==
    \/ Handlers(GardenInputs)
    \/ \E d \in GardenInputs.deltas :
          /\ timePasses(d, GardenInputs.horizon)
          /\ now' - StartTime \in GardenClock
          /\ \A g \in Ids : punctual(g)

SpecGarden == Init /\ [][NextGarden]_vars

(* A match to its end with the emitted events recorded: basic zombies in   *)
(* row 0 with no plant in their way; the first one to reach the house      *)
(* sends the ambulance off, the next crossing ends the match.              *)
(***************************************************************************)
EndingHorizon == 40000
EndingGames   == 1

EndingInputs ==
    [ creators |-> { "s1" },
      joiners  |-> { "s2" },
      sockets  |-> Sockets,
      plants   |-> { Plant("SUNFLOWER", 900000, 50000) },
      zombies  |-> { Zombie("", 50000) },
      deltas   |-> { 20000 },
      horizon  |-> EndingHorizon,
      games    |-> EndingGames ]

NextEnding == NextOver(EndingInputs)

SpecEnding == InitEvents /\ [][NextEnding]_vars

(***************************************************************************)
(* The garden with a second place for the peashooter, at the right edge:   *)
(* the zombies of its row appear behind it.                                *)
(***************************************************************************)
OrchardHorizon == 84000  \* the clock is advanced at most this far
OrchardGames   == 1      \* number of Game objects ever constructed

OrchardInputs ==
    [ creators |-> { "s1" },
      joiners  |-> { "s2" },
      sockets  |-> { "s2" },
      plants   |-> { Plant("SUNFLOWER", 800000, 150000),
                     Plant("PEASHOOTER", 250000, 50000),
                     Plant("PEASHOOTER", 850000, 50000) },
      zombies  |-> { Zombie("", 50000) },
      deltas   |-> { 1000, 20000 },
      horizon  |-> OrchardHorizon,
      games    |-> OrchardGames ]

NextOrchard ==
    \/ Handlers(OrchardInputs)
    \/ \E d \in OrchardInputs.deltas :
          /\ timePasses(d, OrchardInputs.horizon)
          /\ now' - StartTime \in GardenClock
          /\ \A g \in Ids : punctual(g)

SpecOrchard == Init /\ [][NextOrchard]_vars

(***************************************************************************)
(* The last wave: the clock runs through the five waves and meets the end  *)
(* of the last break shortly after a zombie has reached the house.         *)
(***************************************************************************)
FinaleHorizon == 400000  \* the clock is advanced at most this far
FinaleGames   == 1       \* number of Game objects ever constructed

FinaleInputs ==
    [ creators |-> { "s1" },
      joiners  |-> { "s2" },
      sockets  |-> { "s2" },
      plants   |-> { Plant("SUNFLOWER", 900000, 50000) },
      zombies  |-> { Zombie("", 50000) },
      deltas   |-> { 500, 16000, 19500, 20000, 44000, 60000 },
      horizon  |-> FinaleHorizon,
      games    |-> FinaleGames ]

\* the instants of the clock, in milliseconds after StartTime
FinaleClock ==
    { 60000, 80000, 140000, 160000, 220000, 240000, 300000, 320000,
      364000, 380000, 380500, 400000 }

NextFinale ==
    \/ Handlers(FinaleInputs)
    \/ \E d \in FinaleInputs.deltas :
          /\ timePasses(d, FinaleInputs.horizon)
          /\ now' - StartTime \in FinaleClock
          /\ \A g \in Ids : punctual(g)

SpecFinale == Init /\ [][NextFinale]_vars

(***************************************************************************)
(* Past the last wave: the clock runs through six waves; a plant at x = 8  *)
(* holds the zombies of its row where they appear.                         *)
(***************************************************************************)
OvertimeHorizon == 480000  \* the clock is advanced at most this far
OvertimeGames   == 1       \* number of Game objects ever constructed

OvertimeInputs ==
    [ creators |-> { "s1" },
      joiners  |-> { "s2" },
      sockets  |-> { "s2" },
      plants   |-> { Plant("SUNFLOWER", 800000, 50000) },
      zombies  |-> { Zombie("DOOR", 50000) },
      deltas   |-> { 1000, 20000, 59000, 60000 },
      horizon  |-> OvertimeHorizon,
      games    |-> OvertimeGames ]

\* the instants of the clock, in milliseconds after StartTime
OvertimeClock ==
    { 60000, 80000, 140000, 160000, 220000, 240000, 300000, 320000,
      379000, 380000, 400000, 460000, 480000 }

NextOvertime ==
    \/ Handlers(OvertimeInputs)
    \/ \E d \in OvertimeInputs.deltas :
          /\ timePasses(d, OvertimeInputs.horizon)
          /\ now' - StartTime \in OvertimeClock
          /\ \A g \in Ids : punctual(g)

SpecOvertime == Init /\ [][NextOvertime]_vars

(***************************************************************************)
(* The last stand: a sunflower in row 1 earns the sun for a peashooter at  *)
(* x = 7.8 in row 0, in front of the cell where the zombies enter.  The    *)
(* clock goes in steps of the 20 s of the sunflower until the second wave  *)
(* begins, then 16 s (a zombie walks from x = 8 to the house), 0.5 s and   *)
(* 3.5 s (the ambulance drives from the house to x = 7.5) and then in      *)
(* steps of 2 s, the interval of the peashooter.                           *)
(***************************************************************************)
StandHorizon == 110000   \* the clock is advanced at most this far

StandInputs ==
    [ creators |-> { "s1" },
      joiners  |-> { "s2" },
      sockets  |-> { "s2" },
      plants   |-> { Plant("SUNFLOWER", 800000, 150000),
                     Plant("PEASHOOTER", 780000, 50000) },
      zombies  |-> { Zombie("", 50000), Zombie("", 150000) },
      deltas   |-> { 500, 2000, 3500, 16000, 20000 },
      horizon  |-> StandHorizon,
      games    |-> Cardinality(Ids) ]

\* the instants of the clock, in milliseconds after StartTime
StandClock ==
    { 20000, 40000, 60000, 80000, 96000, 96500, 100000, 102000, 104000,
      106000, 108000, 110000 }

\* the instants at which the zombies of a row are sent, in milliseconds
\* after StartTime: those of row 1 in the first wave, those of row 0 in the
\* second
StandArrivals(y) ==
    IF Floor(y) = 0 THEN { 80000, 96000, 100000 } ELSE { 20000 }

NextStand ==
    \/ \E s \in StandInputs.creators, g \in Ids :
          nextUid <= StandInputs.games /\ createGame(s, g)
    \/ \E s \in StandInputs.joiners, g \in Ids : joinGame(s, g)
    \/ \E g \in Ids, m \in StandInputs.plants : placePlant(g, m.type, m.x, m.y)
    \/ \E g \in Ids, m \in StandInputs.zombies :
          /\ now - StartTime \in StandArrivals(m.y)
          /\ placeZombie(g, m.type, m.y)
    \/ \E s \in StandInputs.sockets : disconnect(s)
    \/ \E g \in Ids : gameLoop(g)
    \/ \E d \in StandInputs.deltas :
          /\ timePasses(d, StandInputs.horizon)
          /\ now' - StartTime \in StandClock
          /\ \A c \in StandClock : c <= now - StartTime \/ now' - StartTime <= c
          /\ \A g \in Ids : punctual(g)

SpecStand == Init /\ [][NextStand]_vars

(***************************************************************************)
(* A game without zombies that no player leaves: the clock is followed     *)
(* from the join on, through the five waves, the interval of the game      *)
(* keeps firing and time keeps passing.                                    *)
(***************************************************************************)
PeaceHorizon == 400000   \* the clock is advanced at most this far
PeaceGames   == 1        \* number of Game objects ever constructed

PeaceInputs ==
    [ creators |-> { "s1" },
      joiners  |-> { "s2" },
      sockets  |-> { "s2" },
      plants   |-> { Plant("SUNFLOWER", 800000, 50000),
                     Plant("PEASHOOTER", 250000, 50000) },
      deltas   |-> { 20000, 60000 },
      horizon  |-> PeaceHorizon,
      games    |-> PeaceGames ]

\* the instant at which the phase of the wave system of a game is over
PeaceDue(game) ==
    game.waveStartTime
       + ( IF game.waveStatus = "active" THEN WAVE_SYSTEM.WAVE_DURATION
                                         ELSE WAVE_SYSTEM.BREAK_DURATION )

\* the interval of a game fires
PeaceTick == \E g \in Ids : gameLoop(g)

\* time passes in a game that is being played, at most up to the end of
\* the phase of its wave system, and the interval has fired before
PeaceTime ==
    \E d \in PeaceInputs.deltas :
        /\ \E g \in DOMAIN games : games[g].status = "playing"
        /\ timePasses(d, PeaceInputs.horizon)
        /\ \A g \in DOMAIN games :
              ( games[g].status = "playing" /\ now < PeaceDue(games[g]) )
                 => now' <= PeaceDue(games[g])
        /\ \A g \in Ids : punctual(g)

\* the ids of createGame are fresh ones
NextPeace ==
    \/ \E s \in PeaceInputs.creators, g \in Ids :
          ~Has(g) /\ nextUid <= PeaceInputs.games /\ createGame(s, g)
    \/ \E s \in PeaceInputs.joiners, g \in Ids : joinGame(s, g)
    \/ \E g \in Ids, m \in PeaceInputs.plants : placePlant(g, m.type, m.x, m.y)
    \/ PeaceTick
    \/ PeaceTime

\* setInterval fires the callback again and again, and Date.now() grows
SpecPeace ==
    /\ Init
    /\ [][NextPeace]_vars
    /\ WF_vars(PeaceTick)
    /\ WF_vars(PeaceTime)

(***************************************************************************)
(* The variant with the background sweep (src/unnamed/part_002): no waves, *)
(* no ambulances, one kind of zombie, and an interval started at server    *)
(* start that deletes the games whose lastUpdate is older than             *)
(* CLEANUP_INTERVAL.  The interval of a game is bound to the Game object   *)
(* (game.gameLoop), not to its id.  The lines of updateGameState that      *)
(* part_002 shares with index.js (the colliding plant, the plants, the     *)
(* removal of dead units) are the operators above.                         *)
(*                                                                         *)
(* In this variant `loops` holds the Game objects that have left the       *)
(* registry while their interval is alive, by uid, and `out` is recorded:  *)
(* out.op = "uncaughtException" is the process after it has exited.        *)
(***************************************************************************)
SweepHorizon == 600000   \* the clock is advanced at most this far
SweepGames   == 2        \* number of Game objects ever constructed
SweepZombies == 1        \* placeZombie is explored while fewer zombies exist

CLEANUP_INTERVAL == 300000

ZOMBIE_TYPES2 ==
    [ BASIC |-> [ health |-> 100, damage |-> 10, speed |-> 50,
                  attackInterval |-> 1000 ] ]

\* the object literal of createGame; gameLoop is "null", then "set" by
\* startGameLoop, and "cleared" once clearInterval was called on it
Game2(uid, t, s) ==
    [ uid        |-> uid,
      plants     |-> <<>>,
      zombies    |-> <<>>,
      sun        |-> 50,
      players    |-> << s >>,
      status     |-> "waiting",
      lastUpdate |-> t,
      score      |-> [ plants |-> 0, zombies |-> 0 ],
      gameLoop   |-> "null" ]

\* the objects among those given whose interval is alive, by uid
Ticking(objects) ==
    LET live == { o \in objects : o.gameLoop = "set" } IN
    [ u \in { o.uid : o \in live } |-> CHOOSE o \in live : o.uid = u ]

\* what ran last: a handler of a socket or of a game interval, the clock,
\* the cleanup, or the exit of the process; of the events only the log of
\* the cleanup is recorded
Ran(op) == Out(op, "", << >>)

\* the sweep fires every CLEANUP_INTERVAL after server start; it is due
\* from the step of the clock that reaches such an instant until it has run
sweepDue ==
    /\ now > StartTime
    /\ (now - StartTime) % CLEANUP_INTERVAL = 0
    /\ out.op = "timePasses"

\* a handler has run: the callbacks that fall on one instant run in any
\* order, so the sweep that is due stays due
Handled == IF sweepDue THEN out ELSE Ran("handler")

\* a bare return, or an error to the sender and a return
Nothing ==
    /\ out' = Handled
    /\ UNCHANGED <<games, loops>>

\* the process has not exited
Ready2 == out.op # "uncaughtException"

\* now - game.lastUpdate > CLEANUP_INTERVAL
expired(game, t) == t - game.lastUpdate > CLEANUP_INTERVAL

\* console.log(`Cleaned up inactive game: ${gameId}`), once per game
RECURSIVE cleanedUp(_)
cleanedUp(ids) ==
    IF ids = {} THEN << >>
    ELSE LET g == CHOOSE h \in ids : TRUE IN
         << Ev("console", "Cleaned up inactive game", g) >>
             \o cleanedUp(ids \ {g})

\* the callback of the cleanup interval
cleanup ==
    LET gone == { g \in DOMAIN games : expired(games[g], now) } IN
    /\ Ready2
    /\ sweepDue
    /\ games' = [ g \in DOMAIN games \ gone |-> games[g] ]
    /\ loops' = Ticking({ games[g] : g \in gone }) @@ loops
    /\ out' = Out("cleanup", "", cleanedUp(gone))
    /\ UNCHANGED <<now, nextUid>>

createGame2(s, g) ==
    /\ Ready2
    /\ games' = (g :> Game2(nextUid, now, s)) @@ games
    /\ loops' = IF Has(g) THEN Ticking({ games[g] }) @@ loops ELSE loops
    /\ nextUid' = nextUid + 1
    /\ out' = Handled
    /\ UNCHANGED now

\* startGameLoop(gameId), the game being in the registry
startGameLoop2(game) == [ game EXCEPT !.gameLoop = "set" ]

joinGame2(s, g) ==
    /\ Ready2
    /\ UNCHANGED <<now, nextUid>>
    /\ IF ~Has(g) THEN Nothing
       ELSE IF gameIsFull(games[g]) THEN Nothing
       ELSE IF games[g].status # "waiting" THEN Nothing
       ELSE /\ games' = [ games EXCEPT ![g] =
                            startGameLoop2([ @ EXCEPT !.players = Append(@, s),
                                                      !.status = "playing" ]) ]
            /\ out' = Handled
            /\ UNCHANGED loops

placePlant2(g, type, x, y) ==
    /\ Ready2
    /\ UNCHANGED <<now, nextUid>>
    /\ IF ~Has(g) THEN Nothing
       ELSE IF games[g].status # "playing" THEN Nothing
       ELSE IF type \notin DOMAIN PLANT_TYPES THEN Nothing
       ELSE IF invalidPlantPosition(x, y)
            THEN Nothing
       ELSE IF isSpotTaken(games[g], x, y)
            THEN Nothing
       ELSE IF notEnoughSun(games[g], PLANT_TYPES[type])
            THEN Nothing
       ELSE /\ Len(games[g].plants) < MaxPlants
            /\ games' = [ games EXCEPT ![g] = plantPlaced(@, type, x, y, now) ]
            /\ out' = Handled
            /\ UNCHANGED loops

\* data.x !== 8 || data.y < 0 || data.y >= 5
invalidZombiePosition2(x, y) == x # 8 * CELL \/ y < 0 \/ y >= 5 * CELL

newZombie2(type, x, y, t) ==
    [ type |-> type, x |-> x, y |-> y,
      health |-> ZOMBIE_TYPES2[type].health,
      speed |-> ZOMBIE_TYPES2[type].speed, lastAttack |-> t ]

placeZombie2(g, type, x, y) ==
    /\ Ready2
    /\ UNCHANGED <<now, nextUid>>
    /\ IF ~Has(g) THEN Nothing
       ELSE IF games[g].status # "playing" THEN Nothing
       ELSE IF type \notin DOMAIN ZOMBIE_TYPES2 THEN Nothing
       ELSE IF invalidZombiePosition2(x, y)
            THEN Nothing
       ELSE /\ Len(games[g].zombies) < SweepZombies
            /\ games' = [ games EXCEPT ![g].zombies =
                            Append(@, newZombie2(type, x, y, now)) ]
            /\ out' = Handled
            /\ UNCHANGED loops

\* the games of the socket leave the registry and their intervals are
\* cleared
disconnect2(s) ==
    LET mine == { g \in DOMAIN games : s \in Range(games[g].players) } IN
    /\ Ready2
    /\ games' = [ g \in DOMAIN games \ mine |-> games[g] ]
    /\ out' = Handled
    /\ UNCHANGED <<loops, now, nextUid>>

\* the zombie loop of updateGameState
updateZombie2(game, i, t, dt) ==
    LET zombie == game.zombies[i]
        k == collidingPlant(game, zombie)
    IN
    IF k # 0
    THEN IF t - zombie.lastAttack >= ZOMBIE_TYPES2[zombie.type].attackInterval
         THEN [ game EXCEPT
                  !.plants[k].health = @ - ZOMBIE_TYPES2[zombie.type].damage,
                  !.zombies[i].lastAttack = t ]
         ELSE game
    ELSE [ game EXCEPT !.zombies[i].x = @ - zombie.speed * dt ]

RECURSIVE updateZombies2(_, _, _, _)
updateZombies2(game, i, t, dt) ==
    IF i > Len(game.zombies) THEN game
    ELSE updateZombies2(updateZombie2(game, i, t, dt), i + 1, t, dt)

plantsLost(game) ==
    \E j \in 1..Len(game.zombies) : game.zombies[j].x <= 0

zombiesLost(game) == Len(game.zombies) = 0 /\ Len(game.plants) > 0

\* updateGameState(game) up to the check of the win conditions
updateGameState2(game, t) ==
    LET moved == updateZombies2([ game EXCEPT !.lastUpdate = t ], 1, t,
                                t - game.lastUpdate)
    IN removeDead(updatePlants(moved, 1, t))

\* a win condition holds: status and score are set, and io.to(gameId)
\* throws a ReferenceError, gameId not being in the scope of
\* updateGameState(game); nothing catches it and the process exits
uncaughtException ==
    /\ games' = << >>
    /\ loops' = << >>
    /\ out' = Ran("uncaughtException")

\* the callback of the interval of the game under id g
gameLoop2(g) ==
    /\ Ready2
    /\ Has(g)
    /\ games[g].gameLoop = "set"
    /\ UNCHANGED <<now, nextUid>>
    /\ LET game == updateGameState2(games[g], now) IN
       IF plantsLost(game) \/ zombiesLost(game)
       THEN uncaughtException
       ELSE /\ games' = [ games EXCEPT ![g] = game ]
            /\ out' = Handled
            /\ UNCHANGED loops

\* the callback of the interval of a game that the registry has lost
lostGameLoop(u) ==
    /\ Ready2
    /\ u \in DOMAIN loops
    /\ UNCHANGED <<now, nextUid>>
    /\ LET game == updateGameState2(loops[u], now) IN
       IF plantsLost(game) \/ zombiesLost(game)
       THEN uncaughtException
       ELSE /\ loops' = [ loops EXCEPT ![u] = game ]
            /\ out' = Handled
            /\ UNCHANGED games

\* the intervals of the games have nothing left to do at this instant: with
\* a period of GAME_UPDATE_INTERVAL = 50 ms they fire many times in every
\* step of the clock
punctual2 ==
    /\ \A g \in DOMAIN games :
          games[g].gameLoop = "set" => games[g].lastUpdate = now
    /\ \A u \in DOMAIN loops : loops[u].lastUpdate = now

timePasses2(d, horizon) ==
    /\ Ready2
    /\ ~sweepDue
    /\ punctual2
    /\ timePasses(d, horizon)

\* the messages of placeZombie in this variant, { type, x, y }
Zombie2(type, x, y) == [ type |-> type, x |-> x, y |-> y ]

InitSweep ==
    /\ games = << >>
    /\ loops = << >>
    /\ now = StartTime
    /\ nextUid = 1
    /\ out = Ran("listen")

NextSweep ==
    \/ \E g \in Ids : nextUid <= SweepGames /\ createGame2("s1", g)
    \/ \E g \in Ids : joinGame2("s2", g)
    \/ \E g \in Ids : placePlant2(g, "SUNFLOWER", 8 * CELL, CELL \div 2)
    \/ \E g \in Ids, m \in { Zombie2("BASIC", 8 * CELL, CELL \div 2),
                             Zombie2("", 8 * CELL, CELL \div 2),
                             Zombie2("BASIC", 7 * CELL, CELL \div 2) } :
          placeZombie2(g, m.type, m.x, m.y)
    \/ \E s \in Sockets : disconnect2(s)
    \/ \E g \in Ids : gameLoop2(g)
    \/ \E u \in 1..SweepGames : lostGameLoop(u)
    \/ cleanup
    \/ timePasses2(CLEANUP_INTERVAL \div 2, SweepHorizon)

SpecSweep == InitSweep /\ [][NextSweep]_vars

(***************************************************************************)
(* Two ids in the registry, to follow two games side by side.              *)
(***************************************************************************)
PairHorizon == 20000     \* the clock is advanced at most this far

PairIds == {"g1", "g2"}

PairSockets == {"s1", "s2", "s3"}

PairInputs ==
    [ creators |-> { <<"s1", "g1">>, <<"s3", "g2">> },
      plants   |-> { Plant("SUNFLOWER", 800000, 50000) },
      zombies  |-> { Zombie("", 50000) } ]

StartedPair ==
    /\ games = << >>
    /\ loops = [ g \in PairIds |-> 0 ]
    /\ now = StartTime
    /\ nextUid = 1
    /\ out = Unrecorded

NextPair ==
    \/ \E c \in PairInputs.creators :
          nextUid <= Cardinality(PairIds) /\ createGame(c[1], c[2])
    \/ \E g \in PairIds : joinGame("s2", g)
    \/ \E g \in PairIds, m \in PairInputs.plants :
          placePlant(g, m.type, m.x, m.y)
    \/ \E g \in PairIds, m \in PairInputs.zombies :
          placeZombie(g, m.type, m.y)
    \/ \E s \in PairSockets : disconnect(s)
    \/ \E g \in PairIds : gameLoop(g)
    \/ timePasses(20000, PairHorizon)

SpecPair == StartedPair /\ [][NextPair]_vars

(***************************************************************************)
(*                              The claims                                 *)
(***************************************************************************)

\* id g names the same Game object before and after the step
SameGame(g) ==
    /\ g \in DOMAIN games
    /\ g \in DOMAIN games'
    /\ games[g].uid = games'[g].uid

Last(seq) == seq[Len(seq)]

KnownPlant(type) == type \in { "SUNFLOWER", "PEASHOOTER" }

KnownZombie(type) == type \in { "BASIC", "CONE", "BUCKET", "DOOR", "FOOTBALL" }

\* C1, first part: sun is never negative
C1_SunNonNegative == \A g \in DOMAIN games : games[g].sun >= 0

\* C1, second part: sun goes down only together with one new plant whose
\* kind costs the difference and was affordable, and a placePlant of a kind
\* that costs more than the sun at hand changes neither sun nor plants
C1_Step ==
    \A g \in Ids : SameGame(g) =>
        /\ games'[g].sun < games[g].sun =>
              /\ Len(games'[g].plants) = Len(games[g].plants) + 1
              /\ KnownPlant(Last(games'[g].plants).type)
              /\ LET cost == PLANT_TYPES[Last(games'[g].plants).type].cost IN
                 /\ games[g].sun >= cost
                 /\ games'[g].sun = games[g].sun - cost
        /\ \A m \in PlantInputs :
              ( /\ KnownPlant(m.type)
                /\ games[g].sun < PLANT_TYPES[m.type].cost
                /\ placePlant(g, m.type, m.x, m.y) )
              => /\ games'[g].sun = games[g].sun
                 /\ games'[g].plants = games[g].plants

\* C1: in every reachable state sun >= 0; only placePlant lowers sun, only
\* when sun >= kind.cost; a placePlant with sun < kind.cost is rejected with
\* sun and the plant list unchanged (never clamped)
C1_SunNeverNegative == []C1_SunNonNegative /\ [][C1_Step]_vars

\* a sunflower was bought with exactly the 50 sun at hand, and a peashooter
\* (cost 100) is now refused
C1_Witness ==
    \E g \in DOMAIN games :
        /\ games[g].status = "playing"
        /\ games[g].sun = 0
        /\ Len(games[g].plants) = 1

\* C2, first part: the wave budget is never negative
C2_BudgetNonNegative == \A g \in DOMAIN games : games[g].wavePoints >= 0

\* C2, second part: a placeZombie of a kind that costs more than the budget
\* left changes neither the budget nor the zombies, and whenever the budget
\* changes without a new zombie (a tick) it ends at or above zero
C2_Step ==
    \A g \in Ids : SameGame(g) =>
        /\ \A m \in ZombieInputs :
              ( /\ KnownZombie(zombieKind(m.type))
                /\ ZOMBIE_TYPES[zombieKind(m.type)].cost > games[g].wavePoints
                /\ placeZombie(g, m.type, m.y) )
              => /\ games'[g].wavePoints = games[g].wavePoints
                 /\ games'[g].zombies = games[g].zombies
        /\ ( gameLoop(g) /\ games'[g].wavePoints # games[g].wavePoints )
              => games'[g].wavePoints >= WAVE_SYSTEM.POINTS_PER_WAVE

\* C2: in every reachable state wavePoints >= 0; placeZombie is rejected
\* with budget and zombies unchanged when the kind costs more than the
\* budget left, and no tick or wave transition makes the budget negative
C2_BudgetNeverNegative == []C2_BudgetNonNegative /\ [][C2_Step]_vars

\* the whole budget of the wave was spent: any further zombie costs more
\* than what is left
C2_Witness ==
    \E g \in DOMAIN games :
        /\ games[g].status = "playing"
        /\ games[g].waveStatus = "active"
        /\ games[g].wavePoints = 0
        /\ Len(games[g].zombies) >= 1

\* the cell of the lawn a position lies in
Cell(x, y) == << Floor(x), Floor(y) >>

CellsOf(plants) == { Cell(plants[i].x, plants[i].y) : i \in 1..Len(plants) }

\* C3, first part: every plant is on the lawn and no two plants share a cell
C3_PlantsOnDistinctCells ==
    \A g \in DOMAIN games :
        LET plants == games[g].plants IN
        /\ \A i \in 1..Len(plants) :
              /\ 0 <= plants[i].x /\ plants[i].x < 9 * CELL
              /\ 0 <= plants[i].y /\ plants[i].y < 5 * CELL
        /\ \A i, j \in 1..Len(plants) :
              Cell(plants[i].x, plants[i].y) = Cell(plants[j].x, plants[j].y)
                  => i = j

\* what the zombies that stand at plant k and are ready to attack take from
\* its health in a tick at time t, summed over zombies i..Len
RECURSIVE DamageTo(_, _, _, _)
DamageTo(game, k, t, i) ==
    IF i > Len(game.zombies) THEN 0
    ELSE LET z == game.zombies[i] IN
         (IF collidingPlant(game, z) = k /\ canAttack(z, t)
          THEN ZOMBIE_TYPES[z.type].damage ELSE 0)
         + DamageTo(game, k, t, i + 1)

\* C3, second part: a placePlant onto an occupied cell changes no plant, a
\* new plant goes to a cell that was free, and a cell is vacated only by a
\* tick in which the zombies took the whole health of its plant
C3_Step ==
    \A g \in Ids : SameGame(g) =>
        LET old == games[g].plants
            new == games'[g].plants
        IN
        /\ \A m \in PlantInputs :
              ( /\ Cell(m.x, m.y) \in CellsOf(old)
                /\ placePlant(g, m.type, m.x, m.y) )
              => new = old
        /\ Len(new) > Len(old) =>
              /\ new = Append(old, Last(new))
              /\ Cell(Last(new).x, Last(new).y) \notin CellsOf(old)
        /\ \A k \in 1..Len(old) :
              Cell(old[k].x, old[k].y) \notin CellsOf(new) =>
                  /\ gameLoop(g)
                  /\ old[k].health <= DamageTo(games[g], k, now, 1)

\* C3: plants stay within 0 <= x < 9 and 0 <= y < 5 on pairwise distinct
\* floored cells; a placePlant onto an occupied cell is rejected, and a cell
\* becomes free again only when its plant is removed with health <= 0
C3_OnePlantPerCell == []C3_PlantsOnDistinctCells /\ [][C3_Step]_vars

\* a plant stands on its cell while the sun would pay for another one: a
\* placePlant onto the cell is refused for the cell alone
C3_Witness ==
    \E g \in DOMAIN games :
        /\ games[g].status = "playing"
        /\ Len(games[g].plants) >= 1
        /\ games[g].sun >= PLANT_TYPES.SUNFLOWER.cost

\* C8, placePlant: a message that passes every check of the handler
plantAccepted(game, m) ==
    /\ game.status = "playing"
    /\ KnownPlant(m.type)
    /\ 0 <= m.x /\ m.x < 9 * CELL /\ 0 <= m.y /\ m.y < 5 * CELL
    /\ Cell(m.x, m.y) \notin CellsOf(game.plants)
    /\ game.sun >= PLANT_TYPES[m.type].cost

\* C8, placeZombie: a message that passes every check of the handler
zombieAccepted(game, m) ==
    /\ game.status = "playing"
    /\ game.waveStatus = "active"
    /\ KnownZombie(zombieKind(m.type))
    /\ 0 <= m.y /\ m.y < 5 * CELL
    /\ game.wavePoints >= ZOMBIE_TYPES[zombieKind(m.type)].cost

C8_Step ==
    \A g \in Ids : Has(g) =>
        /\ \A m \in PlantInputs :
              ( plantAccepted(games[g], m) /\ placePlant(g, m.type, m.x, m.y) )
              => /\ Has(g)'
                 /\ games'[g] =
                      [ games[g] EXCEPT
                          !.sun = @ - PLANT_TYPES[m.type].cost,
                          !.plants = Append(@,
                              [ type |-> m.type, x |-> m.x, y |-> m.y,
                                health |-> PLANT_TYPES[m.type].health,
                                lastShot |-> now, lastSunGeneration |-> now ]) ]
        /\ \A m \in ZombieInputs :
              ( zombieAccepted(games[g], m) /\ placeZombie(g, m.type, m.y) )
              => /\ Has(g)'
                 /\ LET kind == zombieKind(m.type) IN
                    games'[g] =
                      [ games[g] EXCEPT
                          !.wavePoints = @ - ZOMBIE_TYPES[kind].cost,
                          !.zombies = Append(@,
                              [ type |-> kind, x |-> 8 * CELL, y |-> m.y,
                                health |-> ZOMBIE_TYPES[kind].health,
                                speed |-> ZOMBIE_TYPES[kind].speed,
                                lastAttack |-> now ]) ]

\* C8: a successful placePlant takes exactly the cost of the kind from sun
\* and appends one plant with the full health of the kind; a successful
\* placeZombie takes exactly the cost of the kind from the budget and appends
\* one zombie at x = 8 in the requested row with the full health of the
\* kind; nothing else of the game changes
C8_ExactPlacement == [][C8_Step]_vars

\* a plant and a zombie have both been placed and paid for
C8_Witness ==
    \E g \in DOMAIN games :
        /\ Len(games[g].plants) = 1
        /\ Len(games[g].zombies) = 1
        /\ games[g].sun = 50 - PLANT_TYPES[games[g].plants[1].type].cost
        /\ games[g].wavePoints = WAVE_SYSTEM.POINTS_PER_WAVE
                                   - ZOMBIE_TYPES[games[g].zombies[1].type].cost

\* C5: when a tick ends a playing game with a zombie victory, score.zombies
\* has grown by exactly 1, however many zombies reached x <= 0 in that tick
C5_ZombieVictoryScoresOnce ==
    [][ \A g \in Ids :
          ( /\ SameGame(g)
            /\ games[g].status = "playing"
            /\ games'[g].status = "ended"
            /\ games'[g].score.zombies # games[g].score.zombies )
          => games'[g].score.zombies = games[g].score.zombies + 1 ]_vars

\* C4: the status of a game only moves forward: a playing game never goes
\* back to waiting, and an ended game stays ended (joinGame on an ended game
\* does not set it to playing)
C4_StatusOneWay ==
    [][ \A g \in Ids : SameGame(g) =>
          /\ games[g].status = "playing" => games'[g].status # "waiting"
          /\ games[g].status = "ended" => games'[g].status = "ended" ]_vars

\* C6: once the status of a game is ended no tick updates it and none of
\* its fields changes any more
C6_NothingAfterEnded ==
    [][ \A g \in Ids :
          ( SameGame(g) /\ games[g].status = "ended" )
          => games'[g] = games[g] ]_vars

\* C7, the tick of the claim: the loop of g fires in a break that has lasted
\* BREAK_DURATION, the wave after the increment is the last one or beyond,
\* and no zombie is on the lawn
lastBreakEnds(g) ==
    /\ Has(g)
    /\ games[g].status # "ended"
    /\ games[g].waveStatus = "break"
    /\ now - games[g].waveStartTime >= WAVE_SYSTEM.BREAK_DURATION
    /\ games[g].currentWave + 1 >= WAVE_SYSTEM.TOTAL_WAVES
    /\ Len(games[g].zombies) = 0

\* C7: in a tick whose break -> active check fires with the incremented
\* wave >= TOTAL_WAVES and no zombie, the game ends with a plant victory:
\* status ended, score.plants one higher, the phase still break, the budget
\* and waveStartTime as they were
C7_PlantVictory ==
    [][ \A g \in Ids :
          ( lastBreakEnds(g) /\ gameLoop(g) )
          => /\ Has(g)'
             /\ games'[g] =
                  [ games[g] EXCEPT !.lastUpdate = now,
                                    !.currentWave = @ + 1,
                                    !.status = "ended",
                                    !.score.plants = @ + 1 ] ]_vars

\* the plants have won at the fifth break -> active check
C7_Witness ==
    \E g \in DOMAIN games :
        /\ games[g].status = "ended"
        /\ games[g].currentWave = WAVE_SYSTEM.TOTAL_WAVES
        /\ games[g].score = [ plants |-> 1, zombies |-> 0 ]
        /\ games[g].waveStatus = "break"
        /\ Len(games[g].players) = 2

\* every message the placement handlers are sent
PlantMessages == PlantInputs \cup EventInputs.plants

ZombieMessages == ZombieInputs \cup EventInputs.zombies

\* C9: the step changed no game and no loop, and emitted nothing to the room
\* (no gameUpdate in particular)
nothingHappened ==
    /\ games' = games
    /\ loops' = loops
    /\ out'.on
    /\ \A i \in 1..Len(out'.ev) :
          /\ out'.ev[i].name # "gameUpdate"
          /\ out'.ev[i].to # "room"

C9_Step ==
    /\ \A s \in Sockets, g \in Ids :
          ( /\ ~Has(g) \/ Len(games[g].players) >= 2
            /\ joinGame(s, g) )
          => nothingHappened
    /\ \A g \in Ids, m \in PlantMessages :
          ( /\ ~Has(g) \/ ~plantAccepted(games[g], m)
            /\ placePlant(g, m.type, m.x, m.y) )
          => nothingHappened
    /\ \A g \in Ids, m \in ZombieMessages :
          ( /\ ~Has(g) \/ ~zombieAccepted(games[g], m)
            /\ placeZombie(g, m.type, m.y) )
          => nothingHappened

\* C9: a rejected command (joinGame on an unknown or full game; placePlant or
\* placeZombie with the wrong status or phase, an unknown kind, a position
\* off the lawn, an occupied cell, too little sun or budget) leaves every
\* game as it was and broadcasts no gameUpdate
C9_RejectedChangesNothing == [][C9_Step]_vars

\* a placement was just refused with an error to the sender, in a playing
\* game that holds a plant
C9_Witness ==
    /\ out.on
    /\ out.op \in { "placePlant", "placeZombie" }
    /\ out.ev # << >>
    /\ out.ev[1].name = "error"
    /\ Has(out.g)
    /\ games[out.g].status = "playing"
    /\ Len(games[out.g].plants) = 1

errorToSender ==
    \E i \in 1..Len(out'.ev) :
        /\ out'.ev[i].name = "error"
        /\ out'.ev[i].to = "socket"

\* C10: a placePlant on a game that is not playing, and a placeZombie on a
\* game that is not playing or is in a break, answer the sender with an
\* error event
C10_InvalidStateReported ==
    [][ \A g \in Ids : Has(g) =>
          /\ \A m \in PlantMessages :
                ( /\ games[g].status # "playing"
                  /\ placePlant(g, m.type, m.x, m.y) )
                => errorToSender
          /\ \A m \in ZombieMessages :
                ( /\ games[g].status # "playing" \/ games[g].waveStatus = "break"
                  /\ placeZombie(g, m.type, m.y) )
                => errorToSender ]_vars

\* C11: the zombies of a game grow only by one placeZombie on a game that is
\* playing, with both players, in the active phase; never in a break, on a
\* waiting game or on an ended game; and a new Game object has no zombie
C11_ZombiesOnlyInActiveWave ==
    [][ \A g \in Ids :
          /\ ( SameGame(g) /\ Len(games'[g].zombies) > Len(games[g].zombies) )
             => /\ games[g].status = "playing"
                /\ games[g].waveStatus = "active"
                /\ Len(games[g].players) = 2
                /\ Len(games'[g].zombies) = Len(games[g].zombies) + 1
                /\ \E m \in ZombieMessages : placeZombie(g, m.type, m.y)
          /\ ( g \in DOMAIN games' /\ ~SameGame(g) )
             => games'[g].zombies = << >> ]_vars

\* a playing game in a break with a zombie on the lawn: placeZombie is sent
\* and the zombies stay as they are
C11_Witness ==
    \E g \in DOMAIN games :
        /\ games[g].status = "playing"
        /\ games[g].waveStatus = "break"
        /\ Len(games[g].zombies) >= 1

\* C12: joinGame on an id that is not in the registry, or on a game with two
\* players, changes nothing; any other joinGame appends the player, sets
\* status playing and the phase active with waveStartTime = now, leaves the
\* match at wave 0 with the base budget, and starts one interval for the id
C12_JoinGame ==
    [][ \A s \in Sockets, g \in Ids :
          joinGame(s, g) =>
             IF ~Has(g) \/ Len(games[g].players) >= 2
             THEN games' = games /\ loops' = loops
             ELSE /\ g \in DOMAIN games'
                  /\ games'[g] =
                       [ games[g] EXCEPT !.players = Append(@, s),
                                         !.status = "playing",
                                         !.waveStatus = "active",
                                         !.waveStartTime = now ]
                  /\ games'[g].currentWave = 0
                  /\ games'[g].wavePoints = WAVE_SYSTEM.POINTS_PER_WAVE
                  /\ loops' = [ loops EXCEPT ![g] = @ + 1 ] ]_vars

\* C13: at most one interval is ever started for a game id, so that at most
\* one interval ticks the game of that id
C13_OneLoopPerGame == \A g \in Ids : loops[g] <= 1

\* C14: createGame puts a fresh game (waiting, the caller its only player,
\* sun 50) under its id and keeps every game the registry held: it never
\* replaces or drops the game of an id in use
C14_CreateKeepsGames ==
    [][ \A s \in Sockets, g \in Ids :
          createGame(s, g) =>
             /\ g \in DOMAIN games'
             /\ games'[g].status = "waiting"
             /\ games'[g].players = << s >>
             /\ games'[g].sun = 50
             /\ \A h \in DOMAIN games :
                   /\ h \in DOMAIN games'
                   /\ games'[h] = games[h] ]_vars

\* the budget of a wave: base + index * increment
BudgetOf(wave) ==
    WAVE_SYSTEM.POINTS_PER_WAVE + wave * WAVE_SYSTEM.POINTS_INCREMENT

\* C15, first part: the budget never exceeds the budget of the current wave
C15_BudgetWithinWave ==
    \A g \in DOMAIN games :
        games[g].wavePoints <= BudgetOf(games[g].currentWave)

\* C15, second part: a tick that takes a game from break to active has
\* raised the wave by exactly 1 and set the budget to that of the new wave,
\* whatever was left; and the wave changes in no other way than by 1 in a
\* tick of a break
C15_Step ==
    \A g \in Ids : SameGame(g) =>
        /\ ( /\ games[g].waveStatus = "break"
             /\ games'[g].waveStatus = "active"
             /\ gameLoop(g) )
           => /\ games'[g].currentWave = games[g].currentWave + 1
              /\ games'[g].wavePoints = BudgetOf(games'[g].currentWave)
        /\ games'[g].currentWave # games[g].currentWave
           => /\ games'[g].currentWave = games[g].currentWave + 1
              /\ games[g].waveStatus = "break"
              /\ gameLoop(g)

\* C15: every break -> active transition raises the wave by exactly 1 and
\* sets the budget to 100 + 50 * currentWave whatever was left unspent, and
\* at all times wavePoints <= 100 + 50 * currentWave
C15_BudgetPerWave == []C15_BudgetWithinWave /\ [][C15_Step]_vars

\* wave 3 has begun with its full budget of 250 while a zombie bought in
\* wave 2 (175 of 200, 25 left unspent) is on the lawn
C15_Witness ==
    \E g \in DOMAIN games :
        /\ games[g].currentWave = 3
        /\ games[g].waveStatus = "active"
        /\ games[g].wavePoints = 250
        /\ Len(games[g].zombies) >= 1

\* C16, the ticks: a tick of a game in the active phase ends the phase if
\* and only if WAVE_DURATION has elapsed since waveStartTime, and then sets
\* waveStartTime to now and keeps wave and budget; no tick makes two phase
\* transitions (a phase that ends in a tick began before it)
C16_Tick ==
    \A g \in Ids :
        ( SameGame(g) /\ ~loopMustStop(g) /\ gameLoop(g) ) =>
            /\ games[g].waveStatus = "active" =>
                  /\ games'[g].waveStatus = "break"
                        <=> now - games[g].waveStartTime
                                >= WAVE_SYSTEM.WAVE_DURATION
                  /\ games'[g].waveStatus = "break" =>
                        /\ games'[g].waveStartTime = now
                        /\ games'[g].currentWave = games[g].currentWave
                        /\ games'[g].wavePoints = games[g].wavePoints
            /\ games[g].waveStatus = "break" =>
                  \/ games'[g].waveStatus = "break"
                        /\ games'[g].waveStartTime = games[g].waveStartTime
                  \/ games'[g].waveStatus = "active"
                        /\ games'[g].waveStartTime = now

\* C16, the phases: whatever step ends a phase of a game, the phase has
\* lasted its whole duration since waveStartTime
C16_Phases ==
    \A g \in Ids : SameGame(g) =>
        /\ ( games[g].waveStatus = "active" /\ games'[g].waveStatus = "break" )
           => now - games[g].waveStartTime >= WAVE_SYSTEM.WAVE_DURATION
        /\ ( games[g].waveStatus = "break" /\ games'[g].waveStatus = "active" )
           => now - games[g].waveStartTime >= WAVE_SYSTEM.BREAK_DURATION

\* C16: a tick in the active phase moves to break exactly when WAVE_DURATION
\* has elapsed, resetting waveStartTime and keeping wave and budget; a tick
\* makes at most one transition; every active phase lasts at least
\* WAVE_DURATION and every break at least BREAK_DURATION
C16_PhaseDurations == [][C16_Tick /\ C16_Phases]_vars

\* the health of the zombies of row r, in list order
RowHealth(zombies, r) ==
    LET row == SelectSeq(zombies, LAMBDA z : Floor(z.y) = r)
    IN [ j \in 1..Len(row) |-> row[j].health ]

NoPeashooter(game) ==
    \A k \in 1..Len(game.plants) : game.plants[k].type # "PEASHOOTER"

\* C17: an ambulance that is used stays as it is for ever (x, active, used
\* and state), and a tick takes no health from the zombies of its row and
\* removes none of them (no peashooter being on the lawn)
C17_UsedAmbulanceInert ==
    [][ \A g \in Ids : SameGame(g) =>
          \A i \in 1..5 :
             games[g].ambulances[i].used =>
                /\ games'[g].ambulances[i] = games[g].ambulances[i]
                /\ ( gameLoop(g) /\ NoPeashooter(games[g]) ) =>
                      RowHealth(games'[g].zombies, games[g].ambulances[i].row)
                        = RowHealth(games[g].zombies, games[g].ambulances[i].row)
       ]_vars

\* the ambulance of row 0 is used, the game goes on and a tick has since
\* moved a zombie of row 0
C17_Witness ==
    \E g \in DOMAIN games :
        /\ games[g].status = "playing"
        /\ games[g].ambulances[1].used
        /\ \E j \in 1..Len(games[g].zombies) :
              /\ Floor(games[g].zombies[j].y) = 0
              /\ games[g].zombies[j].x < 8 * CELL

\* the sunflowers whose interval has elapsed at time t
Ripe(game, t) ==
    { k \in 1..Len(game.plants) :
        /\ game.plants[k].type = "SUNFLOWER"
        /\ t - game.plants[k].lastSunGeneration
             >= PLANT_TYPES.SUNFLOWER.sunGenerationInterval }

RECURSIVE SumHealth(_, _)
SumHealth(units, j) ==
    IF j > Len(units) THEN 0 ELSE units[j].health + SumHealth(units, j + 1)

\* the peashooters that shoot in the step: lastShot moves to now
Fired(g) ==
    { k \in 1..Len(games[g].plants) :
        /\ games[g].plants[k].type = "PEASHOOTER"
        /\ games'[g].plants[k].lastShot # games[g].plants[k].lastShot }

\* the zombies an ambulance runs over in a tick at time now: the ambulance
\* drives, and after its move the zombie of its row is less than a cell away
RunOver(game) ==
    { j \in 1..Len(game.zombies) :
        \E i \in 1..Len(game.ambulances) :
            LET a == game.ambulances[i] IN
            /\ a.active /\ ~a.used
            /\ Floor(game.zombies[j].y) = a.row
            /\ Abs(game.zombies[j].x
                     - (a.x + AMBULANCE.speed * (now - game.lastUpdate))) < CELL }

C19_Step ==
    \A g \in Ids : SameGame(g) =>
        LET old == games[g].zombies
            new == games'[g].zombies
            plants == games[g].plants
            damage == PLANT_TYPES.PEASHOOTER.damage
        IN
        \* no zombie is lost outside a tick; in a tick without a peashooter
        \* exactly the zombies an ambulance runs over are lost
        /\ Len(new) < Len(old) =>
              /\ gameLoop(g)
              /\ NoPeashooter(games[g]) =>
                    Len(new) = Len(old) - Cardinality(RunOver(games[g]))
        /\ ( Len(new) >= Len(old) /\ Len(games'[g].plants) = Len(plants) ) =>
              \* a peashooter shoots only in a tick, shootInterval after its
              \* last shot
              /\ \A k \in Fired(g) :
                    /\ gameLoop(g)
                    /\ now - plants[k].lastShot
                         >= PLANT_TYPES.PEASHOOTER.shootInterval
                    /\ games'[g].plants[k].lastShot = now
              \* every shot takes 20 from one zombie, nothing else takes any
              /\ SumHealth(old, 1) - SumHealth([ j \in 1..Len(old) |-> new[j] ], 1)
                    = damage * Cardinality(Fired(g))
              \* health never grows, and it falls by 20 for each of some
              \* peashooters of the row, behind the zombie, that shot
              /\ \A j \in 1..Len(old) :
                    LET shooters == { k \in Fired(g) :
                                        /\ Floor(plants[k].y) = Floor(old[j].y)
                                        /\ plants[k].x < new[j].x }
                    IN /\ new[j].health <= old[j].health
                       /\ \E n \in 0..Cardinality(shooters) :
                             old[j].health - new[j].health = damage * n

\* C19: the health of a zombie never grows; it falls only in a tick, by 20
\* for a shot of a peashooter of its row, each peashooter shooting at most
\* once per 2000 ms, or to 0 under an ambulance that drives in its row; no
\* command, wave transition or zombie move changes it
C19_ZombieHealth == [][C19_Step]_vars

\* a zombie has been shot twice
C19_Witness ==
    \E g \in DOMAIN games :
        \E j \in 1..Len(games[g].zombies) :
            /\ games[g].zombies[j].health
                 = ZOMBIE_TYPES.BASIC.health - 2 * PLANT_TYPES.PEASHOOTER.damage
            /\ \E k \in 1..Len(games[g].plants) :
                  games[g].plants[k].type = "PEASHOOTER"

\* C20, first part: every plant and every zombie of every game has
\* health > 0
C20_AllAlive ==
    \A g \in DOMAIN games :
        /\ \A k \in 1..Len(games[g].plants) : games[g].plants[k].health > 0
        /\ \A j \in 1..Len(games[g].zombies) : games[g].zombies[j].health > 0

\* the plants that the zombies bring to health <= 0 in a tick at time now
Eaten(game) ==
    { k \in 1..Len(game.plants) :
        game.plants[k].health <= DamageTo(game, k, now, 1) }

\* C20, second part: after a tick the plants whose health the zombies took
\* are gone, and so are the zombies an ambulance ran over
C20_Step ==
    \A g \in Ids :
        ( SameGame(g) /\ ~loopMustStop(g) /\ gameLoop(g) ) =>
            /\ Len(games'[g].plants)
                 = Len(games[g].plants) - Cardinality(Eaten(games[g]))
            /\ Len(games'[g].zombies)
                 <= Len(games[g].zombies) - Cardinality(RunOver(games[g]))

\* C20: in every state between two handlers every plant and every zombie
\* has health > 0, and a unit whose health fell to 0 or below in a tick is
\* not in the state after the tick
C20_DeadAreRemoved == []C20_AllAlive /\ [][C20_Step]_vars

\* the game goes on after the zombies have eaten its sunflower: no plant is
\* left, and the sun exceeds what a game without a sunflower can have
C20_Witness ==
    \E g \in DOMAIN games :
        /\ games[g].status = "playing"
        /\ Len(games[g].plants) = 0
        /\ games[g].sun > 50
        /\ Len(games[g].zombies) >= 1

\* the interval of g fires and runs updateGameState
Ticked(g) == ~loopMustStop(g) /\ gameLoop(g)

\* a plant of the row of zombie z stands less than half a cell from it
Blocked(game, z) ==
    \E k \in 1..Len(game.plants) :
        /\ Floor(game.plants[k].y) = Floor(z.y)
        /\ Abs(z.x - game.plants[k].x) < CELL \div 2

\* where zombie z is after a tick of its game at time now
WalkedTo(game, z) ==
    IF Blocked(game, z) THEN z.x ELSE z.x - z.speed * (now - game.lastUpdate)

\* C21, first part: every zombie is in a row 0..4, at or left of x = 8
C21_ZombiesInRows ==
    \A g \in DOMAIN games :
        \A j \in 1..Len(games[g].zombies) :
            /\ Floor(games[g].zombies[j].y) \in 0..4
            /\ games[g].zombies[j].x <= 8 * CELL

\* C21, second part: a tick leaves the row of every zombie alone and puts
\* each zombie where it stood, when a plant blocks it, or speed * delta to
\* the left; no other step moves a zombie
C21_Step ==
    \A g \in Ids : SameGame(g) =>
        LET old == games[g].zombies
            new == games'[g].zombies
        IN
        IF Ticked(g)
        THEN /\ now - games[g].lastUpdate >= 0
             /\ Len(new) <= Len(old)
             /\ Len(new) = Len(old) =>
                   \A j \in 1..Len(old) :
                      /\ new[j].y = old[j].y
                      /\ new[j].x = WalkedTo(games[g], old[j])
                      /\ new[j].x <= old[j].x
             /\ \A j \in 1..Len(new) :
                   \E i \in j..Len(old) :
                      /\ new[j].y = old[i].y
                      /\ new[j].x = WalkedTo(games[g], old[i])
                      /\ new[j].x <= old[i].x
        ELSE /\ Len(new) >= Len(old)
             /\ \A j \in 1..Len(old) :
                   /\ new[j].y = old[j].y
                   /\ new[j].x = old[j].x

\* C21: the row of a zombie is in 0..4 and never changes; its x never grows:
\* a tick leaves x as it is when the zombie collides with a plant and takes
\* speed * delta from it otherwise
C21_ZombieWalk == []C21_ZombiesInRows /\ [][C21_Step]_vars

\* a zombie stands at x = 8 in front of a plant it has bitten, and another
\* zombie has walked
C21_Witness ==
    \E g \in DOMAIN games :
        /\ \E k \in 1..Len(games[g].plants) :
              games[g].plants[k].health < PLANT_TYPES[games[g].plants[k].type].health
        /\ \E j \in 1..Len(games[g].zombies) : games[g].zombies[j].x = 8 * CELL
        /\ \E j \in 1..Len(games[g].zombies) : games[g].zombies[j].x < 8 * CELL

\* the ids of the games socket s is a player of
GamesOf(s) == { g \in DOMAIN games : s \in Range(games[g].players) }

\* the events of the step, when they are recorded
EventsOf(name) == { i \in 1..Len(out'.ev) : out'.ev[i].name = name }

\* C22, the handler: every game of the leaver leaves the registry, with one
\* gameEnded to its room that names zombies when the leaver is the first
\* player and plants otherwise; the other games stay as they are
C22_Leave ==
    \A s \in Sockets :
        disconnect(s) =>
            /\ DOMAIN games' = DOMAIN games \ GamesOf(s)
            /\ \A g \in DOMAIN games' : games'[g] = games[g]
            /\ out'.on =>
                  /\ Len(out'.ev) = Cardinality(GamesOf(s))
                  /\ \A g \in GamesOf(s) :
                        \E i \in 1..Len(out'.ev) :
                           out'.ev[i] =
                              Ev("room", "gameEnded",
                                 IF games[g].players[1] = s THEN "zombies"
                                 ELSE "plants")

\* C22, afterwards: the interval of an id that is not in the registry stops
\* without an update or an event, and a Game object that has left the
\* registry never comes back (an object that appears is a new one)
C22_Gone ==
    /\ \A g \in Ids :
          ( ~Has(g) /\ gameLoop(g) ) =>
              /\ games' = games
              /\ loops'[g] = loops[g] - 1
              /\ out'.on => out'.ev = << >>
    /\ \A g \in DOMAIN games' :
          ( g \notin DOMAIN games \/ games'[g].uid # games[g].uid ) =>
              games'[g].uid = nextUid

\* C22: a disconnect of a player removes the game from the registry whatever
\* its status and broadcasts gameEnded with the side of the other player as
\* winner (zombies when the first player leaves, plants otherwise); after
\* the removal no tick updates the game or broadcasts its state
C22_Disconnect == [][C22_Leave /\ C22_Gone]_vars

\* the second player has just left its game: the registry is empty, the
\* room was told that the plants win, and the interval of the id is alive
C22_Witness ==
    /\ out.on
    /\ out.op = "disconnect"
    /\ out.ev = << Ev("room", "gameEnded", "plants") >>
    /\ games = << >>
    /\ \E g \in Ids : loops[g] > 0
    /\ nextUid > 1

\* how long ago the game was last updated
Age(game) == now - game.lastUpdate

\* the sweep removes the games that were last updated more than 300000 ms
\* ago and keeps every other game as it is
C23_SweepExact ==
    cleanup =>
        /\ DOMAIN games' = { g \in DOMAIN games : Age(games[g]) <= 300000 }
        /\ \A g \in DOMAIN games' : games'[g] = games[g]
        /\ Len(out'.ev) = Cardinality(DOMAIN games \ DOMAIN games')

\* the sweep removes no game whose interval is alive
C23_TickingKept ==
    cleanup =>
        \A g \in DOMAIN games : games[g].gameLoop = "set" => g \in DOMAIN games'

\* joinGame, placePlant and placeZombie leave lastUpdate as it is; only the
\* interval of the game writes it, with the time of the tick
C23_Commands ==
    \A g \in DOMAIN games :
        ( g \in DOMAIN games' /\ games'[g].uid = games[g].uid ) =>
            \/ games'[g].lastUpdate = games[g].lastUpdate
            \/ gameLoop2(g) /\ games'[g].lastUpdate = now

\* a game nobody joins is removed by the second sweep after its creation at
\* the latest: it is never 2 * 300000 ms old once the sweep that is due has
\* run
C23_WaitingIsSwept ==
    \A g \in DOMAIN games :
        games[g].status = "waiting" =>
            \/ Age(games[g]) < 2 * 300000
            \/ sweepDue

\* C23: each sweep removes exactly the games with now - lastUpdate > 300000;
\* a game that is never joined is removed in the end, a game whose interval
\* is ticking is never removed by the sweep, and commands do not put the
\* removal off
C23_IdleReaping ==
    /\ []C23_WaitingIsSwept
    /\ [][C23_SweepExact /\ C23_TickingKept /\ C23_Commands]_vars

\* the step is a tick of the game under id g or a joinGame, placePlant or
\* placeZombie that names g
ActsOn(g) ==
    \/ Ticked(g)
    \/ \E s \in PairSockets : joinGame(s, g)
    \/ \E m \in PairInputs.plants : placePlant(g, m.type, m.x, m.y)
    \/ \E m \in PairInputs.zombies : placeZombie(g, m.type, m.y)

\* the step leaves id h alone: the same game is under it, or none, and as
\* many intervals are bound to it
Untouched(h) ==
    /\ Has(h) <=> h \in DOMAIN games'
    /\ Has(h) => games'[h] = games[h]
    /\ loops'[h] = loops[h]

\* a tick or command on g leaves every other id alone; createGame touches
\* the id it draws only, disconnect the games of the leaver only
C24_Others ==
    \A h \in PairIds :
        \/ Untouched(h)
        \/ /\ \A g \in PairIds \ {h} : ~ActsOn(g)
           /\ \A g \in PairIds \ {h}, s \in PairSockets : ~createGame(s, g)
           /\ \A s \in PairSockets : h \notin GamesOf(s) => ~disconnect(s)

\* what is under an id changes only by a step on that id, by a createGame
\* that draws it, or by the disconnect of one of its players
C24_OnlyOwn ==
    \A h \in PairIds :
        \/ Untouched(h)
        \/ ActsOn(h)
        \/ gameLoop(h)
        \/ \E s \in PairSockets : createGame(s, h)
        \/ \E s \in PairSockets : h \in GamesOf(s) /\ disconnect(s)

\* C24: a tick, placePlant, placeZombie or joinGame on one game leaves every
\* other game of the registry unchanged; games meet in the registry only
\* (createGame inserts, disconnect deletes)
C24_NoSharedState == [][C24_Others /\ C24_OnlyOwn]_vars

\* two games are playing side by side: g1 has a plant and was not ticked
\* since the clock moved, g2 was and has a zombie
C24_Witness ==
    /\ Has("g1") /\ Has("g2")
    /\ games["g1"].status = "playing" /\ games["g2"].status = "playing"
    /\ Len(games["g1"].plants) = 1 /\ Len(games["g1"].zombies) = 0
    /\ Len(games["g2"].plants) = 0 /\ Len(games["g2"].zombies) = 1
    /\ games["g1"].lastUpdate < now
    /\ games["g2"].lastUpdate = now
    /\ loops["g1"] = 1 /\ loops["g2"] = 1

\* zombie z of the game walks in a tick at time now and ends it at x <= 0
Crosses(game, z) == ~Blocked(game, z) /\ WalkedTo(game, z) <= 0

\* the ambulance of the row of zombie z
Vehicle(game, z) == game.ambulances[Floor(z.y) + 1]

\* C25, the tick: a zombie that walks to x <= 0 in a row whose ambulance is
\* not used leaves that ambulance active; the tick counts a zombie victory
\* only when a zombie has walked to x <= 0 in a row whose ambulance is used,
\* and then it does; nothing else activates an ambulance or counts a zombie
\* victory
C25_Step ==
    \A g \in Ids : SameGame(g) =>
        LET old == games[g]
            new == games'[g]
            crossing == { j \in 1..Len(old.zombies) : Crosses(old, old.zombies[j]) }
            lost == new.score.zombies > old.score.zombies
        IN
        IF Ticked(g)
        THEN /\ \A j \in crossing :
                   IF Vehicle(new, old.zombies[j]).used
                   THEN lost /\ new.status = "ended"
                   ELSE Vehicle(new, old.zombies[j]).active
             /\ lost =>
                   \E j \in crossing : Vehicle(new, old.zombies[j]).used
             /\ \A i \in 1..5 :
                   ( new.ambulances[i].active /\ ~old.ambulances[i].active ) =>
                      \E j \in crossing : Floor(old.zombies[j].y) = i - 1
        ELSE /\ ~lost
             /\ \A i \in 1..5 :
                   new.ambulances[i].active = old.ambulances[i].active

\* C25, the state: a used ambulance was activated, and a zombie victory has
\* been counted only with a used ambulance
C25_UsedFirst ==
    \A g \in DOMAIN games :
        /\ \A i \in 1..5 :
              games[g].ambulances[i].used => games[g].ambulances[i].active
        /\ games[g].score.zombies > 0 =>
              \E i \in 1..5 : games[g].ambulances[i].used

DrivenTo(game, a) == a.x + AMBULANCE.speed * (now - game.lastUpdate)

\* a driving ambulance of the row of zombie z comes within one cell of it
HitByDriven(game, z) ==
    \E i \in 1..5 :
        LET a == game.ambulances[i] IN
        /\ a.active /\ ~a.used
        /\ a.row = Floor(z.y)
        /\ Abs(z.x - DrivenTo(game, a)) < CELL

\* the zombies of the game that no ambulance runs over, in list order
Spared(game) == SelectSeq(game.zombies, LAMBDA z : ~HitByDriven(game, z))

\* C26, the state: five ambulances, one per row 0..4, none left of its start
\* at x = -0.5; one that was never activated stands there, unused
C26_Fleet ==
    \A g \in DOMAIN games :
        /\ Len(games[g].ambulances) = 5
        /\ \A i \in 1..5 :
              LET a == games[g].ambulances[i] IN
              /\ a.row = i - 1
              /\ a.x >= -(CELL \div 2)
              /\ ~a.active => ( a.x = -(CELL \div 2) /\ ~a.used )
              /\ a.used => a.x > 9 * CELL

\* a tick has moved the ambulances that were active and not used by
\* speed * delta and no other, has marked used those that are past x = 9, and
\* has removed the zombies they ran over: without a peashooter exactly these
\* are gone
Driven(old, new) ==
    /\ \A i \in 1..5 :
          LET a == old.ambulances[i]
              b == new.ambulances[i]
          IN
          /\ b.row = a.row
          /\ b.x >= a.x
          /\ b.x = IF a.active /\ ~a.used THEN DrivenTo(old, a) ELSE a.x
          /\ b.used = ( a.used \/ ( a.active /\ b.x > 9 * CELL ) )
    /\ Len(new.zombies) <= Len(Spared(old))
    /\ NoPeashooter(old) =>
          /\ Len(new.zombies) = Len(Spared(old))
          /\ \A j \in 1..Len(new.zombies) :
                /\ new.zombies[j].health = Spared(old)[j].health
                /\ new.zombies[j].x = WalkedTo(old, Spared(old)[j])

\* a step that is no tick leaves the ambulances alone
Parked(old, new) == new.ambulances = old.ambulances

\* the tick ends the game with the victory of the plants
PlantsWin(old, new) == new.score.plants > old.score.plants

\* C26 as stated: every tick drives the ambulances
C26_EveryTick ==
    /\ []C26_Fleet
    /\ [][ \A g \in Ids : SameGame(g) =>
             IF Ticked(g) THEN Driven(games[g], games'[g])
             ELSE Parked(games[g], games'[g]) ]_vars

\* C26: there are always five ambulances, one per row 0..4; every tick but
\* the one that ends the game with the victory of the plants moves each
\* ambulance that is active and not used by speed * delta, sets the health
\* of the zombies of its row less than one cell from it to 0 and marks it
\* used when its x > 9; the tick of the victory of the plants and every
\* other step leave the ambulances and the zombies where they are, and an
\* ambulance that is not active never moves
C26_AmbulanceDrive ==
    /\ []C26_Fleet
    /\ [][ \A g \in Ids : SameGame(g) =>
             IF Ticked(g) /\ ~PlantsWin(games[g], games'[g])
             THEN Driven(games[g], games'[g])
             ELSE /\ Parked(games[g], games'[g])
                  /\ Ticked(g) => games'[g].zombies = games[g].zombies ]_vars

\* the plants have won while the ambulance of row 0 was on its way: it has
\* left its start and stands short of the right edge, not used
C26_Witness ==
    \E g \in DOMAIN games :
        /\ games[g].status = "ended"
        /\ games[g].score.plants = 1
        /\ games[g].ambulances[1].active
        /\ ~games[g].ambulances[1].used
        /\ games[g].ambulances[1].x > -(CELL \div 2)
        /\ games[g].ambulances[1].x <= 9 * CELL

\* the plant that zombie z bites when it bites: the first plant of the list
\* in its row less than half a cell away; 0 when there is none
Victim(game, z) ==
    LET near == { k \in 1..Len(game.plants) :
                    /\ Floor(game.plants[k].y) = Floor(z.y)
                    /\ Abs(z.x - game.plants[k].x) < CELL \div 2 }
    IN IF near = {} THEN 0 ELSE CHOOSE k \in near : \A m \in near : k <= m

\* zombie z bites in a tick at time now: it has a victim and its last bite
\* is at least the attack interval of its kind ago
Bites(game, z) ==
    /\ Victim(game, z) # 0
    /\ now - z.lastAttack >= ZOMBIE_TYPES[z.type].attackInterval

\* the damage that plant k takes from the zombies j..n in a tick at time now
RECURSIVE Bitten(_, _, _)
Bitten(game, k, j) ==
    IF j > Len(game.zombies) THEN 0
    ELSE LET z == game.zombies[j] IN
         ( IF Bites(game, z) /\ Victim(game, z) = k
           THEN ZOMBIE_TYPES[z.type].damage ELSE 0 )
         + Bitten(game, k, j + 1)

\* the health of the plants, in list order
Healths(plants) == [ k \in 1..Len(plants) |-> plants[k].health ]

\* the health of the plants that are left after the bites of a tick
AfterBites(game) ==
    SelectSeq([ k \in 1..Len(game.plants) |->
                  game.plants[k].health - Bitten(game, k, 1) ],
              LAMBDA h : h > 0)

\* zombie z of the old game after a tick, as far as its own fields go
Engaged(old, z, new) ==
    /\ new.y = z.y
    /\ new.type = z.type
    /\ new.x = WalkedTo(old, z)
    /\ Victim(old, z) # 0 => new.x = z.x
    /\ new.lastAttack = IF Bites(old, z) THEN now ELSE z.lastAttack
    /\ new.lastAttack # z.lastAttack =>
          new.lastAttack - z.lastAttack >= ZOMBIE_TYPES[z.type].attackInterval

\* C27, the step: in a tick a zombie with a victim stays where it is, bites
\* it for the damage of its kind when its attack interval has passed and
\* then has lastAttack = now; the health of a plant falls by the bites of
\* the zombies whose victim it is and by nothing else; no other step changes
\* the health of a plant or the lastAttack of a zombie
C27_Step ==
    \A g \in Ids : SameGame(g) =>
        LET old == games[g]
            new == games'[g]
        IN
        IF Ticked(g)
        THEN /\ Healths(new.plants) = AfterBites(old)
             /\ \A j \in 1..Len(new.zombies) :
                   \E i \in j..Len(old.zombies) :
                      Engaged(old, old.zombies[i], new.zombies[j])
             /\ Len(new.zombies) = Len(old.zombies) =>
                   \A j \in 1..Len(old.zombies) :
                      Engaged(old, old.zombies[j], new.zombies[j])
        ELSE /\ \A k \in 1..Len(old.plants) :
                   new.plants[k].health = old.plants[k].health
             /\ \A j \in 1..Len(old.zombies) :
                   new.zombies[j].lastAttack = old.zombies[j].lastAttack

\* C27: a zombie that collides with a plant does not move; it takes its
\* damage from the health of that one plant when now - lastAttack >=
\* attackInterval and sets lastAttack to now, so that its bites are at least
\* attackInterval apart; the health of a plant changes in no other way
C27_ZombieAttack == [][C27_Step]_vars

\* two zombies stand at x = 8 and have just bitten the same plant, which has
\* lost the damage of both
C27_Witness ==
    \E g \in DOMAIN games :
        /\ Len(games[g].plants) >= 1
        /\ Len(games[g].zombies) = 2
        /\ \A j \in 1..2 :
              /\ games[g].zombies[j].x = 8 * CELL
              /\ games[g].zombies[j].lastAttack = now
              /\ Victim(games[g], games[g].zombies[j]) = 1
        /\ games[g].plants[1].health =
              PLANT_TYPES[games[g].plants[1].type].health
                - ZOMBIE_TYPES[games[g].zombies[1].type].damage
                - ZOMBIE_TYPES[games[g].zombies[2].type].damage
        /\ games[g].lastUpdate = now
        /\ now > StartTime

\* the zombies that plant p can shoot in a tick at time now, by index: those
\* of its row that are to the right of it once they have walked
Ahead(game, p) ==
    { j \in 1..Len(game.zombies) :
        /\ Floor(game.zombies[j].y) = Floor(p.y)
        /\ WalkedTo(game, game.zombies[j]) > p.x }

\* the zombie that plant p shoots: the leftmost one ahead, the first of the
\* list among several at the same x; 0 when none is ahead
Target(game, p) ==
    IF Ahead(game, p) = {} THEN 0
    ELSE CHOOSE j \in Ahead(game, p) :
            \A m \in Ahead(game, p) \ {j} :
                \/ WalkedTo(game, game.zombies[j]) < WalkedTo(game, game.zombies[m])
                \/ /\ WalkedTo(game, game.zombies[j]) = WalkedTo(game, game.zombies[m])
                   /\ j < m

\* plant p shoots in a tick at time now
Shoots(game, p) ==
    /\ p.type = "PEASHOOTER"
    /\ now - p.lastShot >= 2000
    /\ Target(game, p) # 0

\* the number of plants k..n of the game that shoot zombie j
RECURSIVE ShotsAt(_, _, _)
ShotsAt(game, j, k) ==
    IF k > Len(game.plants) THEN 0
    ELSE ( IF Shoots(game, game.plants[k]) /\ Target(game, game.plants[k]) = j
           THEN 1 ELSE 0 )
         + ShotsAt(game, j, k + 1)

\* the health of the zombies that are left after a tick at time now: a
\* zombie under an ambulance has none, every shot takes 20
AfterShots(game) ==
    SelectSeq([ j \in 1..Len(game.zombies) |->
                  ( IF j \in RunOver(game) THEN 0 ELSE game.zombies[j].health )
                    - 20 * ShotsAt(game, j, 1) ],
              LAMBDA h : h > 0)

\* health and shot timer of the plants that are left after a tick at time
\* now: a plant that shoots has lastShot = now, any other plant keeps it
AfterShooting(game) ==
    SelectSeq([ k \in 1..Len(game.plants) |->
                  [ health   |-> game.plants[k].health - Bitten(game, k, 1),
                    lastShot |-> IF Shoots(game, game.plants[k]) THEN now
                                 ELSE game.plants[k].lastShot ] ],
              LAMBDA p : p.health > 0)

\* C28, the step: in a tick every peashooter whose shoot interval has passed
\* takes 20 from its target and from no other zombie and sets lastShot to
\* now; without a target it keeps lastShot and nothing is damaged
C28_Step ==
    \A g \in Ids : ( SameGame(g) /\ Ticked(g) ) =>
        LET old == games[g]
            new == games'[g]
        IN
        /\ [ j \in 1..Len(new.zombies) |-> new.zombies[j].health ]
             = AfterShots(old)
        /\ [ k \in 1..Len(new.plants) |->
               [ health   |-> new.plants[k].health,
                 lastShot |-> new.plants[k].lastShot ] ]
             = AfterShooting(old)

\* C28: a peashooter whose shoot interval has passed damages exactly the
\* zombie of its row with the least x greater than its own, the earliest of
\* the list on equal x; zombies at or behind it and zombies of other rows
\* are never hit, and with no such zombie nothing is damaged and its timer
\* is not reset
C28_PeashooterTarget == [][C28_Step]_vars

\* two zombies walk side by side in front of a peashooter that has just
\* shot: the first of the list is hit, the second is not
C28_Witness ==
    \E g \in DOMAIN games :
        /\ Len(games[g].zombies) = 2
        /\ games[g].zombies[1].x = games[g].zombies[2].x
        /\ Floor(games[g].zombies[1].y) = Floor(games[g].zombies[2].y)
        /\ games[g].zombies[1].health < ZOMBIE_TYPES[games[g].zombies[1].type].health
        /\ games[g].zombies[2].health = ZOMBIE_TYPES[games[g].zombies[2].type].health
        /\ \E k \in 1..Len(games[g].plants) :
              /\ games[g].plants[k].type = "PEASHOOTER"
              /\ games[g].plants[k].lastShot = now
              /\ Floor(games[g].plants[k].y) = Floor(games[g].zombies[1].y)
              /\ games[g].plants[k].x < games[g].zombies[1].x
        /\ games[g].lastUpdate = now

\* the events of one handler: nothing follows a gameEnded, neither another
\* gameEnded nor a gameUpdate
C29_LastEvent ==
    out.on =>
        \A i \in 1..Len(out.ev) :
            out.ev[i].name = "gameEnded" =>
                \A j \in (i + 1)..Len(out.ev) :
                    out.ev[j].name \notin { "gameEnded", "gameUpdate" }

\* a game that has ended: no later step sends gameEnded or gameUpdate to it
C29_Silence ==
    \A g \in Ids :
        ( Has(g) /\ games[g].status = "ended" ) =>
            \A s \in Sockets :
                ( \/ gameLoop(g)
                  \/ disconnect(s) /\ g \in GamesOf(s)
                  \/ \E m \in PlantMessages : placePlant(g, m.type, m.x, m.y)
                  \/ \E m \in ZombieMessages : placeZombie(g, m.type, m.y) )
                => ( out'.on =>
                       EventsOf("gameEnded") \cup EventsOf("gameUpdate") = {} )

\* C29: a game gets at most one gameEnded in its life, from the tick that
\* ends it or from a disconnect, and no gameUpdate after it
C29_OneFinalEvent == []C29_LastEvent /\ [][C29_Silence]_vars

\* the game has been joined and its interval has not ticked since: joinGame
\* wrote waveStartTime, and lastUpdate is older
NotTickedYet(game) ==
    /\ game.status = "playing"
    /\ game.lastUpdate < game.waveStartTime

\* C30: the first tick after joinGame moves no zombie further than its
\* speed times the time since the join
C30_FirstDelta ==
    [][ \A g \in Ids :
          ( SameGame(g) /\ Ticked(g) /\ NotTickedYet(games[g])
            /\ Len(games'[g].zombies) = Len(games[g].zombies) ) =>
              \A j \in 1..Len(games[g].zombies) :
                  games[g].zombies[j].x - games'[g].zombies[j].x
                    <= games[g].zombies[j].speed
                         * (now - games[g].waveStartTime) ]_vars

\* a tick of the game at time now finds its break over
BreakOver(game) ==
    /\ game.waveStatus = "break"
    /\ now - game.waveStartTime >= 20000

\* C31, the step: a tick that finds the break over with the next wave index
\* at 5 or more and a zombie in the game starts that wave, with the budget
\* 100 + 50 * index, and counts no victory of the plants; the plants win
\* only in a tick that finds the break over, the next index at 5 or more and
\* no zombie, so never in the tick that removes the last zombie
C31_Step ==
    \A g \in Ids : SameGame(g) =>
        LET old == games[g]
            new == games'[g]
        IN
        /\ ( /\ Ticked(g)
             /\ BreakOver(old)
             /\ old.currentWave + 1 >= 5
             /\ Len(old.zombies) > 0 )
           => /\ new.currentWave = old.currentWave + 1
              /\ new.waveStatus = "active"
              /\ new.waveStartTime = now
              /\ new.wavePoints = 100 + 50 * new.currentWave
              /\ new.score.plants = old.score.plants
              /\ new.status = "ended" => new.score.zombies > old.score.zombies
        /\ new.score.plants # old.score.plants
           => /\ Ticked(g)
              /\ BreakOver(old)
              /\ old.currentWave + 1 >= 5
              /\ Len(old.zombies) = 0
              /\ new.score.plants = old.score.plants + 1
        /\ ( Len(old.zombies) > 0 /\ Len(new.zombies) = 0 )
           => new.score.plants = old.score.plants

WonAtFifthWave(g) ==
    /\ Has(g)
    /\ games[g].status = "ended"
    /\ games[g].currentWave = 5
    /\ games[g].score = [ plants |-> 1, zombies |-> 0 ]

\* C32, the state: without zombies a game ends in no other way, and not
\* before 5 * (60000 + 20000) ms have passed since the join
C32_EndsOnlySo ==
    \A g \in DOMAIN games :
        games[g].status = "ended" =>
            /\ WonAtFifthWave(g)
            /\ now - StartTime
                  >= WAVE_SYSTEM.TOTAL_WAVES
                       * (WAVE_SYSTEM.WAVE_DURATION + WAVE_SYSTEM.BREAK_DURATION)

\* C32: a joined game in which no zombie is placed and whose interval keeps
\* ticking is ended in the end, by the victory of the plants at the fifth
\* end of a break (currentWave = 5, score 1 : 0)
C32_PlantsWinInTheEnd ==
    /\ []C32_EndsOnlySo
    /\ \A g \in Ids :
          ( Has(g) /\ games[g].status = "playing" ) ~> WonAtFifthWave(g)

\* the plants have won a game in which plants were placed and sun was made
C32_Witness ==
    \E g \in DOMAIN games :
        /\ WonAtFifthWave(g)
        /\ Len(games[g].zombies) = 0
        /\ Len(games[g].plants) = 2
        /\ games[g].sun > 50
        /\ loops[g] = 0

\* C33: a game of the registry has one or two players, it is waiting
\* exactly when it has one, and a game that is played or ended has two
\* players and a waveStartTime that joinGame has set
C33_PlayersAndStatus ==
    \A g \in DOMAIN games :
        /\ Len(games[g].players) \in 1 .. 2
        /\ games[g].status = "waiting" <=> Len(games[g].players) = 1
        /\ games[g].status \in { "playing", "ended" } =>
              /\ Len(games[g].players) = 2
              /\ games[g].waveStartTime >= StartTime

\* the plants that the bites of a tick at time now leave without health
Dying(game) ==
    { k \in 1..Len(game.plants) :
        game.plants[k].health - Bitten(game, k, 1) <= 0 }

\* the sunflowers whose interval has passed in a tick at time now
SunDue(game) ==
    { k \in 1..Len(game.plants) :
        /\ game.plants[k].type = "SUNFLOWER"
        /\ now - game.plants[k].lastSunGeneration >= 20000 }

\* the zombies that an ambulance runs over in a tick and that bite in it
DeadBiters(game) ==
    { j \in RunOver(game) : Bites(game, game.zombies[j]) }

\* the plants whose shot of the tick goes to a zombie that an ambulance
\* has run over
DeadTargets(game) ==
    { k \in 1..Len(game.plants) :
        /\ Shoots(game, game.plants[k])
        /\ Target(game, game.plants[k]) \in RunOver(game) }

\* the health of the zombies and the health and shot timers of the plants
\* after a tick are those that all the bites and all the shots leave
AllActed(old, new) ==
    /\ Healths(new.plants) = AfterBites(old)
    /\ [ j \in 1..Len(new.zombies) |-> new.zombies[j].health ]
         = AfterShots(old)
    /\ [ k \in 1..Len(new.plants) |-> new.plants[k].lastShot ]
         = [ k \in 1..Len(AfterShooting(old)) |-> AfterShooting(old)[k].lastShot ]

\* C34, the step: a tick that does not end with the victory of the plants
\* adds the sun of every sunflower that is due, of those that the zombies
\* kill in it too; a zombie that an ambulance has run over still bites and
\* still takes the shot of a peashooter, and a peashooter that the zombies
\* kill still shoots; the dead are gone only after the tick
C34_Step ==
    \A g \in Ids : ( SameGame(g) /\ Ticked(g) ) =>
        LET old == games[g]
            new == games'[g]
        IN
        \/ PlantsWin(old, new)
        \/ /\ new.sun = old.sun + 25 * Cardinality(SunDue(old))
           /\ \A k \in Dying(old) :
                 \A q \in Range(new.plants) :
                    q.x # old.plants[k].x \/ q.y # old.plants[k].y
           /\ \A j \in RunOver(old) : Len(new.zombies) < Len(old.zombies)
           /\ ( \/ DeadBiters(old) # {}
                \/ DeadTargets(old) # {}
                \/ \E k \in Dying(old) : Shoots(old, old.plants[k]) )
                 => AllActed(old, new)

\* C34: a tick runs the wave director, the ambulances, the zombies, the
\* plants and the removal of the dead in this order, so that a zombie run
\* over by an ambulance still attacks and can still be the target of a
\* peashooter, and a plant that a zombie has brought to health <= 0 still
\* makes sun or shoots in that tick
C34_RemovalIsLast == [][C34_Step]_vars

\* 100 s after the start two zombies of row 1 have just bitten, no plant is
\* left and the sun is what five rounds of a sunflower make: the sunflower
\* that was placed at the start has made sun in the tick that removed it
C34_Witness ==
    \E g \in DOMAIN games :
        /\ now - StartTime = 100000
        /\ games[g].lastUpdate = now
        /\ games[g].plants = << >>
        /\ games[g].sun = 50 - PLANT_TYPES.SUNFLOWER.cost
                             + 5 * PLANT_TYPES.SUNFLOWER.sunAmount
        /\ Len(games[g].zombies) = 2
        /\ \A j \in 1..2 :
              /\ Floor(games[g].zombies[j].y) = 1
              /\ games[g].zombies[j].x = 8 * CELL
              /\ games[g].zombies[j].lastAttack = now

====
